---------------------------- MODULE Spec2Model ----------------------------
(***************************************************************************)
(* A model of the ICO codec of antoinefink/golang-ico: reader.go (Decode,  *)
(* DecodeAll, DecodeConfig and the private decoder) and writer.go          *)
(* (Encode).  Files are sequences of bytes; Go's 0-based slices are mapped *)
(* onto TLA+'s 1-based sequences by At and Slice.                          *)
(*                                                                         *)
(* 32-bit fields are kept as pairs [hi, lo] of 16-bit halves, because the  *)
(* values the code handles (uint32 fields widened to int64) do not fit the *)
(* integers of the model checker; every operation on them is exact.        *)
(***************************************************************************)
EXTENDS Integers, Sequences, FiniteSets, TLC

VARIABLES
    file,       \* the bytes the reader yields (input of the three decoders)
    rDecode,    \* result of Decode(file), or NotCalled
    rDecodeAll, \* result of DecodeAll(file), or NotCalled
    rConfig,    \* result of DecodeConfig(file), or NotCalled
    im,         \* the image last given to Encode, or NoImage
    rEncode,    \* result of Encode(w, im): error and the bytes written to w
    srcPad,     \* readAllICO: bytes the source yields after those of file
    consumed,   \* readAllICO: bytes taken from the source so far
    limN,       \* readAllICO: the field N of the io.LimitedReader
    rRead,      \* readAllICO: len(b) of io.ReadAll and the result, or NotRead
    pc,         \* one iteration of the loop of decode: the statement reached
    rBytes,     \* ... the result of entryBytes
    rForge,     \* ... the result of forgeBMPHead
    rImage,     \* ... the image or error the iteration ends with
    accesses,   \* ... the slice and index expressions evaluated so far
    other,      \* a second file, compared with file
    rConfigOther, \* result of DecodeConfig(other), or NotCalled
    rDecodeOther, \* result of Decode(other), or NotCalled
    fileBuf,    \* the loop of decode: the buffer readAllICO returned
    loopOn,     \* ... whether decode is in its loop
    loopOut     \* ... what each iteration so far ended with

\* the state of readAllICO read step by step
readVars == <<srcPad, consumed, limN, rRead>>

\* the state of one loop iteration run step by step
iterVars == <<pc, rBytes, rForge, rImage, accesses>>

\* the second file of a comparison and what was decoded from it
pairVars == <<other, rConfigOther, rDecodeOther>>

\* the state of the loop of decode run entry by entry
loopVars == <<fileBuf, loopOn, loopOut>>

vars == <<file, rDecode, rDecodeAll, rConfig, im, rEncode, readVars, iterVars,
          pairVars, loopVars>>

-----------------------------------------------------------------------------
(* Bytes and fixed-width integers                                          *)

\* Go's b[i] for a 0-based index i
At(b, i) == b[i + 1]

\* Go's b[lo:hi]
Slice(b, lo, hi) == SubSeq(b, lo + 1, hi)

\* Go's b[lo:]
SliceFrom(b, lo) == SubSeq(b, lo + 1, Len(b))

\* A 32-bit (or wider) unsigned value as two 16-bit halves.
W(n) == [hi |-> n \div 65536, lo |-> n % 65536]

\* the value of a pair as a plain integer; used only when IsSmall(x)
IsSmall(x) == x.hi < 16384
ToInt(x) == x.hi * 65536 + x.lo

WEq(x, y) == x.hi = y.hi /\ x.lo = y.lo
WLt(x, y) == x.hi < y.hi \/ (x.hi = y.hi /\ x.lo < y.lo)
WLe(x, y) == WLt(x, y) \/ WEq(x, y)

\* x + y without wraparound (int64 addition of two widened uint32 values)
WAdd(x, y) ==
    LET l == x.lo + y.lo
    IN  [hi |-> x.hi + y.hi + l \div 65536, lo |-> l % 65536]

\* x + y modulo 2^32 (uint32 addition)
WAdd32(x, y) ==
    LET s == WAdd(x, y)
    IN  [hi |-> s.hi % 65536, lo |-> s.lo]

\* x / 2 and x % 2 = 0
WHalf(x) == [hi |-> x.hi \div 2, lo |-> (x.hi % 2) * 32768 + x.lo \div 2]
WEven(x) == x.lo % 2 = 0

\* binary.LittleEndian.Uint16(b[i:i+2]) and Uint32(b[i:i+4])
LE16(b, i) == At(b, i) + 256 * At(b, i + 1)
LE32(b, i) == [hi |-> LE16(b, i + 2), lo |-> LE16(b, i)]

\* binary.LittleEndian.PutUint16 / PutUint32, as the bytes written
Put16(n) == <<n % 256, (n \div 256) % 256>>
Put32(x) == Put16(x.lo) \o Put16(x.hi % 65536)

\* binary.BigEndian, as the PNG header uses it
BE32(b, i) == [hi |-> 256 * At(b, i) + At(b, i + 1),
               lo |-> 256 * At(b, i + 2) + At(b, i + 3)]
PutBE32(x) == <<(x.hi \div 256) % 256, x.hi % 256, x.lo \div 256, x.lo % 256>>

\* make([]byte, n)
Zeros(n) == [k \in 1..n |-> 0]

\* b with b[i:i+len(s)] overwritten by s (copy, PutUint32 into a slice)
Patch(b, i, s) ==
    [k \in 1..Len(b) |-> IF k > i /\ k <= i + Len(s) THEN s[k - i] ELSE b[k]]

-----------------------------------------------------------------------------
(* Errors and images                                                       *)

Ok == "nil"

\* a nil image.Image
NilImage == [kind |-> "nil"]

\* image.Image as a pixel grid anchored at the origin: Bounds() is
\* Rect(0, 0, w, h) and pix holds one colour value per pixel, row by row.
Bounds(img) == <<0, 0, img.w, img.h>>

-----------------------------------------------------------------------------
(* The PNG codec (image/png), an external collaborator modelled at its     *)
(* boundary as a lossless container: signature, big-endian width and       *)
(* height, then one byte per pixel.                                        *)

pngHeader == <<137, 80, 78, 71, 13, 10, 26, 10>>

pngHeadLen == 16

\* png.Encode(w, im): the stream written
pngEncode(m) == pngHeader \o PutBE32(W(m.w)) \o PutBE32(W(m.h)) \o m.pix

\* png.DecodeConfig(r)
pngDecodeConfig(b) ==
    IF Len(b) < pngHeadLen \/ Slice(b, 0, 8) # pngHeader
    THEN [err |-> "PngError", w |-> 0, h |-> 0]
    ELSE LET pw == BE32(b, 8)
             ph == BE32(b, 12)
         IN  IF ~IsSmall(pw) \/ ~IsSmall(ph) \/ ToInt(pw) = 0 \/ ToInt(ph) = 0
             THEN [err |-> "PngError", w |-> 0, h |-> 0]
             ELSE [err |-> Ok, w |-> ToInt(pw), h |-> ToInt(ph)]

\* the pixels of a stream with the header c
pngPixels(b, c, avail) ==
    IF c.err # Ok THEN [err |-> c.err, img |-> NilImage]
    ELSE IF c.w > avail \/ c.h > avail \/ c.w * c.h > avail
    THEN [err |-> "PngError", img |-> NilImage]
    ELSE [err |-> Ok,
          img |-> [kind |-> "png", w |-> c.w, h |-> c.h,
                   pix |-> Slice(b, pngHeadLen, pngHeadLen + c.w * c.h)]]

\* png.Decode(r)
pngDecode(b) == pngPixels(b, pngDecodeConfig(b), Len(b) - pngHeadLen)

-----------------------------------------------------------------------------
(* reader.go: ingestion, header and directory                              *)

maxICOSize == 67108864

\* the end of readAllICO (lines 116-119): io.ReadAll returned b, of n bytes
readAllICOResult(n, b) ==
    IF n > maxICOSize
    THEN [err |-> "TooLarge", b |-> <<>>]
    ELSE [err |-> Ok, b |-> b]

\* readAllICO(r): r is the whole content the reader yields
readAllICO(r) == readAllICOResult(Len(r), r)

\* binary.Read of a fixed-size value of n bytes at position pos:
\* io.EOF when nothing is left, io.ErrUnexpectedEOF when too little is.
binaryRead(b, pos, n) ==
    IF Len(b) - pos >= n THEN Ok
    ELSE IF Len(b) - pos <= 0 THEN "EOF"
    ELSE "UnexpectedEOF"

headSize == 6
direntrySize == 16

\* type head, as binary.Read fills it from the first 6 bytes
head(b) == [Zero |-> LE16(b, 0), Type |-> LE16(b, 2), Number |-> LE16(b, 4)]

NoHead == [Zero |-> 0, Type |-> 0, Number |-> 0]

\* type direntry, as binary.Read fills it from the 16 bytes at pos
direntry(b, pos) ==
    [Width |-> At(b, pos), Height |-> At(b, pos + 1), Palette |-> At(b, pos + 2),
     Plane |-> LE16(b, pos + 4), Bits |-> LE16(b, pos + 6),
     Size |-> LE32(b, pos + 8), Offset |-> LE32(b, pos + 12)]

\* decodeHeader without the check of the entry count
decodeHeader_noCountCheck(b) ==
    LET rd == binaryRead(b, 0, headSize)
    IN  IF rd # Ok THEN [err |-> rd, head |-> NoHead]
        ELSE LET hd == head(b)
             IN  IF hd.Zero # 0 \/ hd.Type # 1
                 THEN [err |-> "CorruptHeader", head |-> hd]
                 ELSE [err |-> Ok, head |-> hd]

\* decodeHeader checking the entry count before the reserved and type fields
decodeHeader_countFirst(b) ==
    LET rd == binaryRead(b, 0, headSize)
    IN  IF rd # Ok THEN [err |-> rd, head |-> NoHead]
        ELSE LET hd == head(b)
             IN  IF hd.Number = 0
                 THEN [err |-> "NoImages", head |-> hd]
                 ELSE IF hd.Zero # 0 \/ hd.Type # 1
                 THEN [err |-> "CorruptHeader", head |-> hd]
                 ELSE [err |-> Ok, head |-> hd]

\* decodeHeader reporting a count of 0 as one more corrupt header
decodeHeader_countCorrupt(b) ==
    LET rd == binaryRead(b, 0, headSize)
    IN  IF rd # Ok THEN [err |-> rd, head |-> NoHead]
        ELSE LET hd == head(b)
             IN  IF hd.Zero # 0 \/ hd.Type # 1 \/ hd.Number = 0
                 THEN [err |-> "CorruptHeader", head |-> hd]
                 ELSE [err |-> Ok, head |-> hd]

\* decoder.decodeHeader
decodeHeader(b) ==
    LET rd == binaryRead(b, 0, headSize)
    IN  IF rd # Ok THEN [err |-> rd, head |-> NoHead]
        ELSE LET hd == head(b)
             IN  IF hd.Zero # 0 \/ hd.Type # 1
                 THEN [err |-> "CorruptHeader", head |-> hd]
                 ELSE IF hd.Number = 0
                 THEN [err |-> "NoImages", head |-> hd]
                 ELSE [err |-> Ok, head |-> hd]

\* decoder.decodeEntries: the loop reads entry i at 6 + 16*i and stops at the
\* first read that fails; entries holds the ones read before it.
RECURSIVE decodeEntriesFrom(_, _, _, _)
decodeEntriesFrom(b, n, i, acc) ==
    IF i >= n THEN [err |-> Ok, entries |-> acc]
    ELSE LET pos == headSize + direntrySize * i
             rd == binaryRead(b, pos, direntrySize)
         IN  IF rd # Ok THEN [err |-> rd, entries |-> acc]
             ELSE decodeEntriesFrom(b, n, i + 1, Append(acc, direntry(b, pos)))

\* decodeEntries with the loop starting at 1
decodeEntries_skipFirst(b, hd) == decodeEntriesFrom(b, hd.Number, 1, <<>>)

decodeEntries(b, hd) == decodeEntriesFrom(b, hd.Number, 0, <<>>)

\* entryBytes checking the range before the size
entryBytes_boundsFirst(b, e) ==
    LET start == e.Offset
        size == e.Size
        end == WAdd(start, size)
    IN  IF WLt(end, start) \/ WLt(W(Len(b)), end)
        THEN [err |-> "UnexpectedEOF", data |-> <<>>, from |-> 0, to |-> 0]
        ELSE IF WLe(size, W(0))
        THEN [err |-> "CorruptEntry", data |-> <<>>, from |-> 0, to |-> 0]
        ELSE [err |-> Ok, data |-> Slice(b, ToInt(start), ToInt(end)),
              from |-> ToInt(start), to |-> ToInt(end)]

\* entryBytes refusing a payload that ends exactly at the end of the file
entryBytes_offByOne(b, e) ==
    LET start == e.Offset
        size == e.Size
        end == WAdd(start, size)
    IN  IF WLe(size, W(0))
        THEN [err |-> "CorruptEntry", data |-> <<>>, from |-> 0, to |-> 0]
        ELSE IF WLt(end, start) \/ WLe(W(Len(b)), end)
        THEN [err |-> "UnexpectedEOF", data |-> <<>>, from |-> 0, to |-> 0]
        ELSE [err |-> Ok, data |-> Slice(b, ToInt(start), ToInt(end)),
              from |-> ToInt(start), to |-> ToInt(end)]

\* decoder.entryBytes: start and size are uint32 values widened to int64, so
\* start >= 0 and end >= start always hold and end is their exact sum.
entryBytes(b, e) ==
    LET start == e.Offset
        size == e.Size
        end == WAdd(start, size)
    IN  IF WLe(size, W(0))
        THEN [err |-> "CorruptEntry", data |-> <<>>, from |-> 0, to |-> 0]
        ELSE IF WLt(end, start) \/ WLt(W(Len(b)), end)
        THEN [err |-> "UnexpectedEOF", data |-> <<>>, from |-> 0, to |-> 0]
        ELSE [err |-> Ok, data |-> Slice(b, ToInt(start), ToInt(end)),
              from |-> ToInt(start), to |-> ToInt(end)]

\* the format sniff comparing the first 4 bytes only
isPNG_prefix(entryData) ==
    Len(entryData) >= 4 /\ Slice(entryData, 0, 4) = Slice(pngHeader, 0, 4)

\* the format sniff of decode and DecodeConfig
isPNG(entryData) ==
    Len(entryData) >= Len(pngHeader)
    /\ Slice(entryData, 0, Len(pngHeader)) = pngHeader

-----------------------------------------------------------------------------
(* reader.go: BMP header forging                                           *)

\* the result of a failed forgeBMPHead: (nil, 0, err)
forgeErr(e) == [err |-> e, hasMask |-> FALSE, mask |-> <<>>, bmpSize |-> 0,
                buf |-> <<>>]

\* the row stride of a mask without padding
maskRow_unpadded(w) == (w + 7) \div 8

\* the row stride of a 1-bit mask: (w + 31) / 32 * 4
maskRow(w) == ((w + 31) \div 32) * 4

\* rowSize * int64(h) > imageSize for rowSize = (int64(w)+31)/32*4, decided
\* without forming products beyond the model checker's integers: with w >= 1
\* and h >= 1 the product exceeds n as soon as one factor does.
maskExceeds(w, h, n) ==
    \/ ~IsSmall(w) \/ ~IsSmall(h)
    \/ maskRow(ToInt(w)) > n
    \/ ToInt(h) > n
    \/ maskRow(ToInt(w)) * ToInt(h) > n

\* the size checks testing the payload length before the minimum
dibSizeErr_lengthFirst(data) ==
    IF WLt(W(Len(data)), LE32(data, 0)) THEN "UnexpectedEOF"
    ELSE IF WLt(LE32(data, 0), W(12)) THEN "CorruptDIB"
    ELSE Ok

\* the checks of the declared DIB header size (lines 264-271)
dibSizeErr(data) ==
    IF WLt(LE32(data, 0), W(12)) THEN "CorruptDIB"
    ELSE IF WLt(W(Len(data)), LE32(data, 0)) THEN "UnexpectedEOF"
    ELSE Ok

\* the height heuristic without the directory height
halves_noEntry(h0, w, entryH) ==
    WEven(h0) /\ (WEq(WHalf(h0), w) \/ WLt(w, h0))

\* the height heuristic (lines 308-310): h%2 == 0 and half == entryH ||
\* half == w || h > w
halves(h0, w, entryH) ==
    WEven(h0) /\ (WEq(WHalf(h0), entryH) \/ WEq(WHalf(h0), w) \/ WLt(w, h0))

\* the dimension check testing the width only
zeroDims_widthOnly(w, h) == WEq(w, W(0))

\* w == 0 || h == 0 (line 326)
zeroDims(w, h) == WEq(w, W(0)) \/ WEq(h, W(0))

\* the color-table entry count never capped
colorCount_full(bits, numColors) ==
    IF bits \in {1, 2, 4, 8} THEN W(2 ^ bits) ELSE W(0)

\* color-table entry count (lines 347-355)
colorCount(bits, numColors) ==
    IF bits \in {1, 2, 4, 8}
    THEN LET x == W(2 ^ bits)
         IN  IF WEq(numColors, W(0)) \/ WLt(x, numColors) THEN x ELSE numColors
    ELSE W(0)

\* bytes per color-table entry (lines 357-363)
colorEntrySize(dibSize) == IF WEq(dibSize, W(12)) \/ WEq(dibSize, W(64)) THEN 3 ELSE 4

\* decoder.forgeBMPHead(buf, e) for buf = 14 zero bytes followed by a copy of
\* the payload.  data is that copy (buf[14:]); buf in the result is the forged
\* buffer after every write the function made.
forgeBMPHead(data, e) ==
    IF Len(data) < 4 THEN forgeErr("UnexpectedEOF")
    ELSE
    LET dibSize == LE32(data, 0)
    IN
    IF dibSizeErr(data) # Ok THEN forgeErr(dibSizeErr(data))
    ELSE IF ~WEq(dibSize, W(12)) /\ Len(data) < 16 THEN forgeErr("UnexpectedEOF")
    ELSE
    LET ds == ToInt(dibSize)
        core == ds = 12
        w == IF core THEN W(LE16(data, 4)) ELSE LE32(data, 4)
        h0 == IF core THEN W(LE16(data, 6)) ELSE LE32(data, 8)
        bits == IF core THEN LE16(data, 10) ELSE LE16(data, 14)
        numColors0 == IF ~core /\ Len(data) >= 36 THEN LE32(data, 32) ELSE W(0)
        entryH == IF e.Height = 0 THEN W(256) ELSE W(e.Height)
        half == WHalf(h0)
        halve == halves(h0, w, entryH)
        h == IF halve THEN half ELSE h0
        data1 == IF ~halve THEN data
                 ELSE IF core THEN Patch(data, 6, Put16(ToInt(h)))
                 ELSE Patch(data, 8, Put32(h))
    IN
    IF halve /\ core /\ WLt(W(65535), h) THEN forgeErr("CorruptHeight")
    ELSE IF bits # 32 /\ zeroDims(w, h)
    THEN forgeErr("CorruptDimensions")
    ELSE IF bits # 32 /\ maskExceeds(w, h, Len(data))
    THEN forgeErr("CorruptMaskSize")
    ELSE
    LET maskSize == IF bits # 32
                    THEN maskRow(ToInt(w)) * ToInt(h)
                    ELSE 0
        imageSize == Len(data) - maskSize
    IN
    IF bits # 32 /\ imageSize <= 0 THEN forgeErr("CorruptImageSize")
    ELSE
    LET bmpSize == 14 + imageSize
        numColors == colorCount(bits, numColors0)
        numColorsSize == W(ToInt(numColors) * colorEntrySize(dibSize))
        off0 == WAdd32(WAdd32(W(14), dibSize), numColorsSize)
        offset == IF ds > 40 /\ ds >= 8 /\ ds - 4 <= Len(data)
                  THEN WAdd32(off0, LE32(data1, ds - 8))
                  ELSE off0
    IN
    IF WLe(W(bmpSize), offset) THEN forgeErr("CorruptOffset")
    ELSE [err |-> Ok,
          hasMask |-> bits # 32,
          mask |-> IF bits # 32 THEN SliceFrom(data1, imageSize) ELSE <<>>,
          bmpSize |-> bmpSize,
          buf |-> <<66, 77>> \o Put32(W(bmpSize)) \o <<0, 0, 0, 0>>
                  \o Put32(offset) \o data1]

-----------------------------------------------------------------------------
(* The BMP decoder (github.com/jsummers/gobmp), an external collaborator   *)
(* modelled at its boundary: it reads the forged file header and the DIB   *)
(* header, and Decode also needs the pixel rows to be present.             *)

\* 2^32 - x, the magnitude of a negative int32 held in a uint32
WNeg32(x) ==
    [hi |-> (65535 - x.hi + (IF x.lo = 0 THEN 1 ELSE 0)) % 65536,
     lo |-> (65536 - x.lo) % 65536]

bmpErr == [err |-> "BmpError", w |-> W(0), h |-> W(0), bits |-> 0]

\* bmp.DecodeConfig(r): width and height of the DIB header (a negative
\* height marks a top-down bitmap and is reported by its magnitude)
bmpDecodeConfig(b) ==
    IF Len(b) < 18 \/ Slice(b, 0, 2) # <<66, 77>> THEN bmpErr
    ELSE
    LET dibSize == LE32(b, 14)
    IN
    IF WLt(dibSize, W(12)) \/ WLt(W(Len(b) - 14), dibSize) THEN bmpErr
    ELSE IF ~WEq(dibSize, W(12)) /\ WLt(dibSize, W(16)) THEN bmpErr
    ELSE
    LET core == WEq(dibSize, W(12))
        w == IF core THEN W(LE16(b, 18)) ELSE LE32(b, 18)
        hs == IF core THEN W(LE16(b, 20)) ELSE LE32(b, 22)
        h == IF hs.hi >= 32768 THEN WNeg32(hs) ELSE hs
        bits == IF core THEN LE16(b, 24) ELSE LE16(b, 28)
    IN
    IF w.hi >= 32768 \/ WEq(w, W(0)) \/ WEq(h, W(0)) THEN bmpErr
    ELSE IF bits \notin {1, 2, 4, 8, 16, 24, 32} THEN bmpErr
    ELSE [err |-> Ok, w |-> w, h |-> h, bits |-> bits]

\* the row stride of the pixel data: rows padded to 4 bytes
bmpStride(w, bits) == ((w * bits + 31) \div 32) * 4

\* the pixel rows of a bitmap with the headers c, from the offset off of the
\* file header on
bmpPixels(b, c, off) ==
    IF c.err # Ok THEN [err |-> c.err, img |-> NilImage]
    ELSE IF ~IsSmall(c.w) \/ ~IsSmall(c.h) \/ ~IsSmall(off)
            \/ ToInt(c.w) > 8 * Len(b) \/ ToInt(c.h) > Len(b)
            \/ ToInt(off) > Len(b)
    THEN [err |-> "BmpError", img |-> NilImage]
    ELSE IF ToInt(off) + bmpStride(ToInt(c.w), c.bits) * ToInt(c.h) > Len(b)
    THEN [err |-> "BmpError", img |-> NilImage]
    ELSE [err |-> Ok,
          img |-> [kind |-> "bmp", w |-> ToInt(c.w), h |-> ToInt(c.h),
                   pix |-> Slice(b, ToInt(off),
                                 ToInt(off)
                                 + bmpStride(ToInt(c.w), c.bits) * ToInt(c.h))]]

\* bmp.Decode(r): the image has the size DecodeConfig reports; pix is its
\* colour data (the pixel rows, uninterpreted)
bmpDecode(b) == bmpPixels(b, bmpDecodeConfig(b), LE32(b, 10))

\* bmp.Decode(r) of a decoder that does not insist on the pixel rows being
\* present: whatever the file header's offset says, the image has the size of
\* the DIB header (what is left of the rows is its colour data)
bmpDecodeShort(b) ==
    IF bmpDecodeConfig(b).err # Ok
       \/ ~IsSmall(bmpDecodeConfig(b).w) \/ ~IsSmall(bmpDecodeConfig(b).h)
    THEN [err |-> "BmpError", img |-> NilImage]
    ELSE IF ToInt(bmpDecodeConfig(b).w) > 8 * Len(b)
            \/ ToInt(bmpDecodeConfig(b).h) > Len(b)
    THEN [err |-> "BmpError", img |-> NilImage]
    ELSE [err |-> Ok,
          img |-> [kind |-> "bmp", w |-> ToInt(bmpDecodeConfig(b).w),
                   h |-> ToInt(bmpDecodeConfig(b).h), pix |-> SliceFrom(b, 14)]]

-----------------------------------------------------------------------------
(* reader.go: mask and alpha compositing (decode, lines 179-224)           *)

\* bit (7 - col%8) of a byte
maskBit(byte, col) == (byte \div (2 ^ (7 - (col % 8)))) % 2

\* the alpha grid read from the AND mask in storage order, no row inverted
maskAlpha_storageOrder(maskData, w, h) ==
    [k \in 1..(w * h) |->
        IF maskBit(At(maskData, ((k - 1) \div w) * maskRow(w)
                                + (((k - 1) % w) \div 8)), (k - 1) % w) # 1
        THEN 255 ELSE 0]

\* the alpha grid read from the AND mask, top-down, row by row
maskAlpha(maskData, w, h) ==
    LET rowSize == maskRow(w)
    IN  [k \in 1..(w * h) |->
            LET y == (k - 1) \div w
                col == (k - 1) % w
                rowOff == (h - y - 1) * rowSize
            IN  IF maskBit(At(maskData, rowOff + (col \div 8)), col) # 1
                THEN 255 ELSE 0]

\* the grid of the first byte of each 4-byte pixel group instead of the fourth
pixelAlpha_firstByte(bmpData, offset, w, h) ==
    [k \in 1..(w * h) |->
        At(bmpData, offset + (h - ((k - 1) \div w) - 1) * bmpStride(w, 32)
                    + (((k - 1) % w) * 4))]

\* the alpha grid read from 32-bit pixel data, top-down, row by row
pixelAlpha(bmpData, offset, w, h) ==
    LET rowSize == bmpStride(w, 32)
    IN  [k \in 1..(w * h) |->
            LET y == (k - 1) \div w
                col == (k - 1) % w
                rowOff == offset + (h - y - 1) * rowSize
            IN  At(bmpData, rowOff + (col * 4) + 3)]

\* the alpha branch for a 32-bit entry (lines 203-221): bmpData is
\* data[:bmpSize] and offset its pixel-data offset field
alpha32(bmpData, offset, bmpImg, w, h) ==
    IF Len(bmpData) < 14 THEN [err |-> "CorruptBmpData", img |-> NilImage]
    ELSE IF ~IsSmall(offset)
            \/ ToInt(offset) + bmpStride(w, 32) * h > Len(bmpData)
    THEN [err |-> "CorruptAlpha", img |-> NilImage]
    ELSE [err |-> Ok,
          img |-> [kind |-> "masked", w |-> w, h |-> h, pix |-> bmpImg.pix,
                   alpha |-> pixelAlpha(bmpData, ToInt(offset), w, h)]]

\* the compositing with a mask check that also refuses a mask of exactly
\* rowSize*h bytes
composite_exactRefused(f, bmpImg, w, h) ==
    IF w <= 0 \/ h <= 0 THEN [err |-> Ok, img |-> bmpImg]
    ELSE IF f.hasMask
    THEN IF maskRow(w) * h >= Len(f.mask)
         THEN [err |-> "CorruptMask", img |-> NilImage]
         ELSE [err |-> Ok,
               img |-> [kind |-> "masked", w |-> w, h |-> h, pix |-> bmpImg.pix,
                        alpha |-> maskAlpha(f.mask, w, h)]]
    ELSE alpha32(Slice(f.buf, 0, f.bmpSize), LE32(f.buf, 10), bmpImg, w, h)

\* the part of one loop iteration after bmp.Decode succeeded (lines 179-224):
\* f is the result of forgeBMPHead, bmpImg the image of the BMP decoder, w and
\* h its size
composite(f, bmpImg, w, h) ==
    IF w <= 0 \/ h <= 0 THEN [err |-> Ok, img |-> bmpImg]
    ELSE IF f.hasMask
    THEN IF maskRow(w) * h > Len(f.mask)
         THEN [err |-> "CorruptMask", img |-> NilImage]
         ELSE [err |-> Ok,
               img |-> [kind |-> "masked", w |-> w, h |-> h, pix |-> bmpImg.pix,
                        alpha |-> maskAlpha(f.mask, w, h)]]
    ELSE alpha32(Slice(f.buf, 0, f.bmpSize), LE32(f.buf, 10), bmpImg, w, h)

\* the BMP path after bmp.Decode returned bm (lines 174-224)
decodedBMP(f, bm) ==
    IF bm.err # Ok THEN [err |-> bm.err, img |-> NilImage]
    ELSE composite(f, bm.img, bm.img.w, bm.img.h)

\* the BMP path after forgeBMPHead returned f (lines 169-224)
forgedBMP(f) ==
    IF f.err # Ok THEN [err |-> f.err, img |-> NilImage]
    ELSE decodedBMP(f, bmpDecode(Slice(f.buf, 0, f.bmpSize)))

\* one iteration of the loop of decode on the payload of entry e
decodeEntry(entryData, e) ==
    IF isPNG(entryData) THEN pngDecode(entryData)
    ELSE forgedBMP(forgeBMPHead(entryData, e))

-----------------------------------------------------------------------------
(* reader.go: the slice and index expressions one loop iteration           *)
(* evaluates, each under the conditions that lead to it                    *)

\* the slice expression b[lo:hi] on a buffer b of len bytes; an index
\* expression b[i] is noted as b[i:i+1]
Acc(buf, len, lo, hi) == [buf |-> buf, len |-> len, lo |-> lo, hi |-> hi]

\* entryBytesAcc testing the start of the range instead of its end
entryBytesAcc_startOnly(b, e) ==
    IF WLe(e.Size, W(0)) \/ WLt(W(Len(b)), e.Offset) THEN {}
    ELSE {Acc("file", Len(b), ToInt(e.Offset), ToInt(WAdd(e.Offset, e.Size)))}

\* entryBytes: file[int(start):int(end)] (line 132)
entryBytesAcc(b, e) ==
    IF WLe(e.Size, W(0)) \/ WLt(W(Len(b)), WAdd(e.Offset, e.Size)) THEN {}
    ELSE {Acc("file", Len(b), ToInt(e.Offset), ToInt(WAdd(e.Offset, e.Size)))}

\* decode: entryData[:len(pngHeader)] (line 158)
sniffAcc(entryData) ==
    IF Len(entryData) >= Len(pngHeader)
    THEN {Acc("entryData", Len(entryData), 0, Len(pngHeader))}
    ELSE {}

\* decode and forgeBMPHead up to its return (lines 166-170, 254-377): buf is
\* the buffer of 14 + len(entryData) bytes, data is buf[14:]
forgeAcc(data, e) ==
    LET n == Len(data)
        a0 == {Acc("buf", 14 + n, 14, 14 + n)}
    IN
    IF n < 4 THEN a0
    ELSE
    LET dibSize == LE32(data, 0)
        a1 == a0 \cup {Acc("data", n, 0, 4)}
    IN
    IF dibSizeErr(data) # Ok THEN a1
    ELSE IF ~WEq(dibSize, W(12)) /\ n < 16 THEN a1
    ELSE
    LET ds == ToInt(dibSize)
        core == ds = 12
        w == IF core THEN W(LE16(data, 4)) ELSE LE32(data, 4)
        h0 == IF core THEN W(LE16(data, 6)) ELSE LE32(data, 8)
        bits == IF core THEN LE16(data, 10) ELSE LE16(data, 14)
        entryH == IF e.Height = 0 THEN W(256) ELSE W(e.Height)
        half == WHalf(h0)
        halve == halves(h0, w, entryH)
        h == IF halve THEN half ELSE h0
        a2 == a1 \cup (IF core
                       THEN {Acc("data", n, 4, 6), Acc("data", n, 6, 8),
                             Acc("data", n, 10, 12)}
                       ELSE {Acc("data", n, 4, 8), Acc("data", n, 8, 12),
                             Acc("data", n, 14, 16)}
                            \cup (IF n >= 36 THEN {Acc("data", n, 32, 36)}
                                  ELSE {}))
    IN
    IF halve /\ core /\ WLt(W(65535), h) THEN a2
    ELSE
    LET a3 == a2 \cup (IF ~halve THEN {}
                       ELSE IF core THEN {Acc("data", n, 6, 8)}
                       ELSE {Acc("data", n, 8, 12)})
    IN
    IF bits # 32 /\ (zeroDims(w, h) \/ maskExceeds(w, h, n))
    THEN a3
    ELSE
    LET imageSize == IF bits # 32 THEN n - maskRow(ToInt(w)) * ToInt(h) ELSE n
    IN
    IF bits # 32 /\ imageSize <= 0 THEN a3
    ELSE a3
         \cup (IF bits # 32 THEN {Acc("data", n, imageSize, n)} ELSE {})
         \cup {Acc("buf", 14 + n, 0, 2), Acc("buf", 14 + n, 2, 6)}
         \cup (IF ds > 40 /\ ds >= 8 /\ ds - 4 <= n
               THEN {Acc("data", n, ds - 8, ds - 4)} ELSE {})
         \cup (IF forgeBMPHead(data, e).err = Ok
               THEN {Acc("buf", 14 + n, 10, 14)} ELSE {})

\* the mask loop (lines 189-201): maskData[rowOff+col/8]
maskAcc(maskData, w, h) ==
    IF maskRow(w) * h > Len(maskData) THEN {}
    ELSE {Acc("maskData", Len(maskData), row * maskRow(w) + (col \div 8),
              row * maskRow(w) + (col \div 8) + 1) :
             row \in 0..(h - 1), col \in 0..(w - 1)}

\* the alpha loop (lines 203-220): bmpData[10:14] and bmpData[rowOff+col*4+3]
alphaAcc(bmpData, offset, w, h) ==
    IF Len(bmpData) < 14 THEN {}
    ELSE {Acc("bmpData", Len(bmpData), 10, 14)}
         \cup (IF ~IsSmall(offset)
                  \/ ToInt(offset) + bmpStride(w, 32) * h > Len(bmpData)
               THEN {}
               ELSE {Acc("bmpData", Len(bmpData),
                         ToInt(offset) + row * bmpStride(w, 32) + (col * 4) + 3,
                         ToInt(offset) + row * bmpStride(w, 32) + (col * 4) + 4) :
                        row \in 0..(h - 1), col \in 0..(w - 1)})

\* the iteration after bmp.Decode returned bm (lines 179-224)
compositeAcc(f, bm) ==
    IF bm.err # Ok THEN {}
    ELSE IF bm.img.w <= 0 \/ bm.img.h <= 0 THEN {}
    ELSE IF f.hasMask THEN maskAcc(f.mask, bm.img.w, bm.img.h)
    ELSE {Acc("buf", Len(f.buf), 0, f.bmpSize)}
         \cup alphaAcc(Slice(f.buf, 0, f.bmpSize), LE32(f.buf, 10), bm.img.w,
                       bm.img.h)

\* the iteration after forgeBMPHead returned f without error (lines 174-224):
\* data[:bmpSize] and the loops
bmpAcc(f) ==
    {Acc("buf", Len(f.buf), 0, f.bmpSize)}
    \cup compositeAcc(f, bmpDecode(Slice(f.buf, 0, f.bmpSize)))

-----------------------------------------------------------------------------
(* reader.go: the bytes one loop iteration writes.  entryData is a slice   *)
(* of file and shares its bytes; buf is made by make and filled by copy    *)
(* (lines 166-167) and shares none; data is buf[14:].                      *)

\* bytes are stored at index at of the buffer named buf
Write(buf, at, bytes) == [buf |-> buf, at |-> at, bytes |-> bytes]

\* the height as forgeBMPHead reads it, for a payload whose header it can read
rawHeight(data) ==
    IF WEq(LE32(data, 0), W(12)) THEN W(LE16(data, 6)) ELSE LE32(data, 8)

rawWidth(data) ==
    IF WEq(LE32(data, 0), W(12)) THEN W(LE16(data, 4)) ELSE LE32(data, 4)

rawBits(data) ==
    IF WEq(LE32(data, 0), W(12)) THEN LE16(data, 10) ELSE LE16(data, 14)

\* forgeBMPHead gets as far as the height heuristic and halves the height
halving(data, e) ==
    /\ Len(data) >= 4 /\ dibSizeErr(data) = Ok
    /\ WEq(LE32(data, 0), W(12)) \/ Len(data) >= 16
    /\ halves(rawHeight(data), rawWidth(data),
              IF e.Height = 0 THEN W(256) ELSE W(e.Height))

\* the halved height stored in the slice of the file, as if forgeBMPHead were
\* given entryData itself
heightWrite_inPlace(data, e) ==
    IF ~halving(data, e) THEN {}
    ELSE IF WEq(LE32(data, 0), W(12))
    THEN {Write("entryData", 6, Put16(ToInt(WHalf(rawHeight(data)))))}
    ELSE {Write("entryData", 8, Put32(WHalf(rawHeight(data))))}

\* PutUint16(data[6:8], h) and PutUint32(data[8:12], h) (lines 313-319)
heightWrite(data, e) ==
    IF ~halving(data, e) THEN {}
    ELSE IF WEq(LE32(data, 0), W(12))
    THEN {Write("buf", 14 + 6, Put16(ToInt(WHalf(rawHeight(data)))))}
    ELSE {Write("buf", 14 + 8, Put32(WHalf(rawHeight(data))))}

\* the height after the heuristic
planeHeight(data, e) ==
    IF halving(data, e) THEN WHalf(rawHeight(data)) ELSE rawHeight(data)

\* bmpSize (lines 323-343), for a payload that passes the checks before it
forgedSize(data, e) ==
    IF rawBits(data) # 32
    THEN 14 + Len(data)
         - maskRow(ToInt(rawWidth(data))) * ToInt(planeHeight(data, e))
    ELSE 14 + Len(data)

\* the writes of forgeBMPHead on the payload data of entry e: the height, the
\* magic number and the file size (lines 341-344), the offset (line 375)
forgeWrites(data, e) ==
    heightWrite(data, e)
    \cup (IF forgeBMPHead(data, e).err \in {Ok, "CorruptOffset"}
          THEN {Write("buf", 0, <<66, 77>>),
                Write("buf", 2, Put32(W(forgedSize(data, e))))}
          ELSE {})
    \cup (IF forgeBMPHead(data, e).err = Ok
          THEN {Write("buf", 10, Slice(forgeBMPHead(data, e).buf, 10, 14))}
          ELSE {})

\* the writes of one loop iteration on entry e, entryBytes having returned eb
iterationWrites(e, eb) ==
    IF eb.err # Ok \/ isPNG(eb.data) THEN {}
    ELSE forgeWrites(eb.data, e)

\* the buffer b after the writes ws that name it, index 0 of the named buffer
\* being index base of b
RECURSIVE written(_, _, _, _)
written(b, name, base, ws) ==
    IF ws = {} THEN b
    ELSE LET w == CHOOSE x \in ws : \A y \in ws : x.at <= y.at
         IN  written(IF w.buf = name THEN Patch(b, base + w.at, w.bytes) ELSE b,
                     name, base, ws \ {w})

-----------------------------------------------------------------------------
(* reader.go: decode orchestration                                         *)

\* The decoder after decode returned: err, the fields head, entries and
\* images, and two observations of the run: parsed, the number of directory
\* entries read, and sliced, the payloads sliced out of the file, each with the
\* (0-based) index of its entry.
decoderState(err, hd, entries, images, sliced) ==
    [err |-> err, head |-> hd, entries |-> entries, images |-> images,
     parsed |-> Len(entries), sliced |-> sliced]

\* The loop of decode (lines 150-225) from index i on.  loopStore is the end
\* of iteration i, r being the image or error of the entry; loopSlice is the
\* iteration after entryBytes returned eb.
RECURSIVE decodeLoop(_, _, _, _, _, _)
loopStore(b, hd, entries, i, images, sliced, r) ==
    IF r.err # Ok THEN decoderState(r.err, hd, entries, images, sliced)
    ELSE decodeLoop(b, hd, entries, i + 1, [images EXCEPT ![i + 1] = r.img],
                    sliced)

loopSlice(b, hd, entries, i, images, sliced, eb) ==
    IF eb.err # Ok THEN decoderState(eb.err, hd, entries, images, sliced)
    ELSE loopStore(b, hd, entries, i, images,
                   sliced \cup {[i |-> i, data |-> eb.data]},
                   decodeEntry(eb.data, entries[i + 1]))

decodeLoop(b, hd, entries, i, images, sliced) ==
    IF i >= Len(entries) THEN decoderState(Ok, hd, entries, images, sliced)
    ELSE loopSlice(b, hd, entries, i, images, sliced,
                   entryBytes(b, entries[i + 1]))

\* decode after decodeEntries returned de (lines 145-227)
decodeDir(b, hd, de) ==
    IF de.err # Ok THEN decoderState(de.err, hd, de.entries, <<>>, {})
    ELSE decodeLoop(b, hd, de.entries, 0,
                    [k \in 1..Len(de.entries) |-> NilImage], {})

\* decode after decodeHeader returned dh (lines 142-227)
decodeHead(b, dh) ==
    IF dh.err # Ok THEN decoderState(dh.err, dh.head, <<>>, <<>>, {})
    ELSE decodeDir(b, dh.head, decodeEntries(b, dh.head))

\* decode after readAllICO returned ra (lines 137-227)
decodeFile(ra) ==
    IF ra.err # Ok THEN decoderState(ra.err, NoHead, <<>>, <<>>, {})
    ELSE decodeHead(ra.b, decodeHeader(ra.b))

\* decoder.decode
decode(r) == decodeFile(readAllICO(r))

\* what a public function hands back, with the observations of its run
NotCalled == [called |-> FALSE]

\* Decode after d.decode(r) returned, d being the decoder (lines 26-32)
DecodeResult(d) ==
    IF d.err # Ok
    THEN [called |-> TRUE, err |-> d.err, img |-> NilImage,
          parsed |-> d.parsed, sliced |-> d.sliced]
    ELSE IF Len(d.images) = 0
    THEN [called |-> TRUE, err |-> "NoImages", img |-> NilImage,
          parsed |-> d.parsed, sliced |-> d.sliced]
    ELSE [called |-> TRUE, err |-> Ok, img |-> d.images[1],
          parsed |-> d.parsed, sliced |-> d.sliced]

\* Decode
Decode(r) == DecodeResult(decode(r))

\* a nil []image.Image
NilList == [isNil |-> TRUE, list |-> <<>>]

\* DecodeAll handing back the images decoded before the error
DecodeAllResult_partial(d) ==
    [called |-> TRUE, err |-> d.err,
     images |-> [isNil |-> FALSE, list |-> d.images],
     parsed |-> d.parsed, sliced |-> d.sliced]

\* DecodeAll after d.decode(r) returned, d being the decoder (lines 37-40)
DecodeAllResult(d) ==
    IF d.err # Ok
    THEN [called |-> TRUE, err |-> d.err, images |-> NilList,
          parsed |-> d.parsed, sliced |-> d.sliced]
    ELSE [called |-> TRUE, err |-> Ok,
          images |-> [isNil |-> FALSE, list |-> d.images],
          parsed |-> d.parsed, sliced |-> d.sliced]

\* DecodeAll
DecodeAll(r) == DecodeAllResult(decode(r))

\* the zero image.Config returned with every error
configErr(err, parsed, sliced) ==
    [called |-> TRUE, err |-> err, w |-> W(0), h |-> W(0),
     parsed |-> parsed, sliced |-> sliced]

\* DecodeConfig after png.DecodeConfig returned c (line 73)
configPNG(c, n, sl) ==
    IF c.err # Ok THEN configErr(c.err, n, sl)
    ELSE [called |-> TRUE, err |-> Ok, w |-> W(c.w), h |-> W(c.h),
          parsed |-> n, sliced |-> sl]

\* DecodeConfig after bmp.DecodeConfig returned c (line 83)
configBMP(c, n, sl) ==
    IF c.err # Ok THEN configErr(c.err, n, sl)
    ELSE [called |-> TRUE, err |-> Ok, w |-> c.w, h |-> c.h,
          parsed |-> n, sliced |-> sl]

\* DecodeConfig after forgeBMPHead returned f (lines 79-83)
configForged(f, n, sl) ==
    IF f.err # Ok THEN configErr(f.err, n, sl)
    ELSE configBMP(bmpDecodeConfig(Slice(f.buf, 0, f.bmpSize)), n, sl)

\* configEntry reading the DIB header as stored, without forging
configEntry_noForge(e, n, eb) ==
    IF eb.err # Ok THEN configErr(eb.err, n, {})
    ELSE IF isPNG(eb.data)
    THEN configPNG(pngDecodeConfig(eb.data), n, {[i |-> 0, data |-> eb.data]})
    ELSE configBMP(bmpDecodeConfig(<<66, 77>> \o Zeros(12) \o eb.data), n,
                   {[i |-> 0, data |-> eb.data]})

\* DecodeConfig after entryBytes returned eb for the first entry e of n
\* (lines 67-83)
configEntry(e, n, eb) ==
    IF eb.err # Ok THEN configErr(eb.err, n, {})
    ELSE IF isPNG(eb.data)
    THEN configPNG(pngDecodeConfig(eb.data), n, {[i |-> 0, data |-> eb.data]})
    ELSE configForged(forgeBMPHead(eb.data, e), n,
                      {[i |-> 0, data |-> eb.data]})

\* configDir slicing the payload of every entry before it looks at the first
configDir_allEntries(b, de) ==
    IF de.err # Ok THEN configErr(de.err, Len(de.entries), {})
    ELSE IF Len(de.entries) = 0 THEN configErr("NoImages", 0, {})
    ELSE IF \E k \in 1..Len(de.entries) : entryBytes(b, de.entries[k]).err # Ok
    THEN configErr("UnexpectedEOF", Len(de.entries), {})
    ELSE configEntry(de.entries[1], Len(de.entries),
                     entryBytes(b, de.entries[1]))

\* DecodeConfig after decodeEntries returned de (lines 59-83)
configDir(b, de) ==
    IF de.err # Ok THEN configErr(de.err, Len(de.entries), {})
    ELSE IF Len(de.entries) = 0 THEN configErr("NoImages", 0, {})
    ELSE configEntry(de.entries[1], Len(de.entries),
                     entryBytes(b, de.entries[1]))

\* DecodeConfig after decodeHeader returned dh (lines 56-83)
configHead(b, dh) ==
    IF dh.err # Ok THEN configErr(dh.err, 0, {})
    ELSE configDir(b, decodeEntries(b, dh.head))

\* DecodeConfig after readAllICO returned ra (lines 51-83)
configFile(ra) ==
    IF ra.err # Ok THEN configErr(ra.err, 0, {})
    ELSE configHead(ra.b, decodeHeader(ra.b))

\* DecodeConfig
DecodeConfig(r) == configFile(readAllICO(r))

-----------------------------------------------------------------------------
(* writer.go: Encode                                                       *)

\* no image given to Encode yet
NoImage == [kind |-> "none"]

\* png.Encode rejects an image without pixels
pngEncodeErr(m) == IF m.w <= 0 \/ m.h <= 0 THEN "PngError" ELSE Ok

\* the header and the directory entry Encode writes (lines 15-24, 36-39)
encodeHeader == [Zero |-> 0, Type |-> 1, Number |-> 1]

\* the entry with the payload offset of a file without directory
encodeEntry_headerOffset(m, pngLen) ==
    [Width |-> m.w % 256, Height |-> m.h % 256, Palette |-> 0, Plane |-> 1,
     Bits |-> 32, Size |-> W(pngLen), Offset |-> W(6)]

\* the entry with a width or height of 256 and more written as 255
encodeEntry_clamped(m, pngLen) ==
    [Width |-> IF m.w > 255 THEN 255 ELSE m.w,
     Height |-> IF m.h > 255 THEN 255 ELSE m.h, Palette |-> 0, Plane |-> 1,
     Bits |-> 32, Size |-> W(pngLen), Offset |-> W(22)]

encodeEntry(m, pngLen) ==
    [Width |-> m.w % 256, Height |-> m.h % 256, Palette |-> 0, Plane |-> 1,
     Bits |-> 32, Size |-> W(pngLen), Offset |-> W(22)]

\* binary.Write of a head and of a direntry
writeHead(hd) == Put16(hd.Zero) \o Put16(hd.Type) \o Put16(hd.Number)

writeEntry(e) ==
    <<e.Width, e.Height, e.Palette, 0>> \o Put16(e.Plane) \o Put16(e.Bits)
    \o Put32(e.Size) \o Put32(e.Offset)

\* Encode(w, im): err is the error returned, out the bytes written to w
Encode(m) ==
    IF pngEncodeErr(m) # Ok
    THEN [called |-> TRUE, err |-> pngEncodeErr(m), out |-> <<>>]
    ELSE LET png == pngEncode(m)
         IN  [called |-> TRUE, err |-> Ok,
              out |-> writeHead(encodeHeader)
                      \o writeEntry(encodeEntry(m, Len(png))) \o png]

-----------------------------------------------------------------------------
(* Inputs: icon files built the way testdata/generate_test_data.go builds  *)
(* them (header, directory, payloads laid out one after the other), with   *)
(* the corruptions of generateEdgeCases and some more.                     *)

MaxEntries == 2

Ramp(n, seed) == [k \in 1..n |-> (seed + 37 * k) % 256]

\* createTestImage: a w x h pixel grid
TestImage(w, h, seed) ==
    [kind |-> "img", w |-> w, h |-> h, pix |-> Ramp(w * h, seed)]

\* BITMAPINFOHEADER and BITMAPCOREHEADER as the generator writes them
DibHeader40(w, h, bits, numColors) ==
    Put32(W(40)) \o Put32(W(w)) \o Put32(W(h)) \o Put16(1) \o Put16(bits)
    \o Zeros(16) \o Put32(W(numColors)) \o Put32(W(0))

DibHeader12(w, h, bits) ==
    Put32(W(12)) \o Put16(w) \o Put16(h) \o Put16(1) \o Put16(bits)

\* a DIB payload: header, color table, pixel rows of the h/2 (or h) lines
\* of the color plane, AND mask
DibPayload(hdr, tableLen, w, lines, bits) ==
    hdr \o Ramp(tableLen, 11) \o Ramp(bmpStride(w, bits) * lines, 3)
    \o Ramp(maskRow(w) * lines, 128)

PayloadKinds ==
    {"png1", "png2", "pngTrunc", "bmp1", "bmp4", "bmp8", "bmp24", "bmp32",
     "bmp32w2", "bmpCore", "bmpTall", "bmpNoHalve", "bmpBadDib", "bmpZeroW",
     "short", "png7", "pngSig7", "pngBits1"}

Payload(k) ==
    CASE k = "png1" -> pngEncode(TestImage(1, 1, 7))
      [] k = "png2" -> pngEncode(TestImage(2, 1, 9))
      [] k = "pngTrunc" -> Slice(pngEncode(TestImage(2, 2, 5)), 0, pngHeadLen)
      [] k = "bmp1" -> DibPayload(DibHeader40(1, 2, 1, 2), 8, 1, 1, 1)
      [] k = "bmp4" -> DibPayload(DibHeader40(1, 2, 4, 2), 8, 1, 1, 4)
      [] k = "bmp8" -> DibPayload(DibHeader40(1, 2, 8, 2), 8, 1, 1, 8)
      [] k = "bmp24" -> DibPayload(DibHeader40(1, 2, 24, 0), 0, 1, 1, 24)
      [] k = "bmp32" -> DibPayload(DibHeader40(1, 2, 32, 0), 0, 1, 1, 32)
      [] k = "bmp32w2" -> DibPayload(DibHeader40(2, 4, 32, 0), 0, 2, 2, 32)
      [] k = "bmpCore" -> DibPayload(DibHeader12(1, 2, 1), 6, 1, 1, 1)
      [] k = "bmpTall" -> DibPayload(DibHeader40(1, 3, 24, 0), 0, 1, 3, 24)
      [] k = "bmpNoHalve" -> DibPayload(DibHeader40(2, 2, 24, 0), 0, 2, 2, 24)
      [] k = "bmpBadDib" -> Put32(W(8)) \o Zeros(12)
      [] k = "bmpZeroW" -> DibPayload(DibHeader40(0, 2, 24, 0), 0, 1, 1, 24)
      [] k = "png7" -> Slice(pngHeader, 0, 7)
      [] k = "pngSig7" -> Patch(pngEncode(TestImage(1, 1, 7)), 7, <<11>>)
      [] k = "pngBits1" -> pngEncode(TestImage(1, 1, 7))
      [] OTHER -> <<1, 2, 3>>

\* the width, height and bits fields of the directory entry of a payload
EntryDims(k) ==
    CASE k = "png2" -> <<2, 1, 32>>
      [] k = "pngTrunc" -> <<2, 2, 32>>
      [] k = "bmp1" -> <<1, 1, 1>>
      [] k = "pngBits1" -> <<1, 1, 1>>
      [] k = "bmp4" -> <<1, 1, 4>>
      [] k = "bmp8" -> <<1, 1, 8>>
      [] k = "bmp24" -> <<1, 1, 24>>
      [] k = "bmp32w2" -> <<2, 2, 32>>
      [] k = "bmpCore" -> <<1, 1, 1>>
      [] k = "bmpTall" -> <<1, 3, 24>>
      [] k = "bmpNoHalve" -> <<2, 2, 24>>
      [] OTHER -> <<1, 1, 32>>

\* how the size and offset fields of an entry deviate from its payload
Fixes == {"ok", "size0", "size0far", "far", "over", "wrap", "planes0"}

EntrySpecs1 ==
    {[p |-> k, fix |-> "ok"] : k \in PayloadKinds}
    \cup {[p |-> "png1", fix |-> f] : f \in Fixes}

EntrySpecs2 ==
    {[p |-> k, fix |-> "ok"] : k \in {"png1", "png2", "pngTrunc", "bmp1", "bmp32"}}
    \cup {[p |-> "png1", fix |-> f] : f \in {"size0far", "over"}}

\* the sequences of at most n entry specs: any one entry, or several of the
\* smaller set
RECURSIVE SpecSeqs(_)
SpecSeqs(n) ==
    IF n = 0 THEN {<<>>}
    ELSE IF n = 1 THEN {<<>>} \cup {<<s>> : s \in EntrySpecs1}
    ELSE SpecSeqs(n - 1)
         \cup {Append(q, s) : q \in {x \in SpecSeqs(n - 1) : Len(x) = n - 1
                                        /\ \A j \in 1..Len(x) : x[j] \in EntrySpecs2},
                              s \in EntrySpecs2}

RECURSIVE PayloadsLen(_, _)
PayloadsLen(specs, i) ==
    IF i = 0 THEN 0 ELSE PayloadsLen(specs, i - 1) + Len(Payload(specs[i].p))

RECURSIVE Concat(_, _)
Concat(specs, i) ==
    IF i = 0 THEN <<>> ELSE Concat(specs, i - 1) \o Payload(specs[i].p)

\* the directory entry of payload i, at offset off, the file being total long
MkEntry(sp, off, total) ==
    LET len == Len(Payload(sp.p))
        size == CASE sp.fix \in {"size0", "size0far"} -> W(0)
                  [] sp.fix = "over" -> W(total - off + 1)
                  [] sp.fix = "wrap" -> W(46)
                  [] OTHER -> W(len)
        offset == CASE sp.fix \in {"size0far", "far"} -> W(10000)
                    [] sp.fix = "wrap" -> [hi |-> 65535, lo |-> 65520]
                    [] OTHER -> W(off)
        planes == IF sp.fix = "planes0" THEN 0 ELSE 1
        d == EntryDims(sp.p)
    IN  <<d[1], d[2], 0, 0>> \o Put16(planes) \o Put16(d[3]) \o Put32(size)
        \o Put32(offset)

RECURSIVE MkDir(_, _, _)
MkDir(specs, i, total) ==
    IF i = 0 THEN <<>>
    ELSE MkDir(specs, i - 1, total)
         \o MkEntry(specs[i],
                    headSize + direntrySize * Len(specs)
                    + PayloadsLen(specs, i - 1), total)

\* a whole file: the header fields are free, so that the count can lie
MkFile(zero, type, number, specs) ==
    LET n == Len(specs)
        total == headSize + direntrySize * n + PayloadsLen(specs, n)
    IN  Put16(zero) \o Put16(type) \o Put16(number) \o MkDir(specs, n, total)
        \o Concat(specs, n)

\* the header fields tried with every body: a good header, a nonzero
\* reserved field, a wrong type, a count of 0, a count one too large
HeaderFixes == {"good", "reserved", "type", "both0", "count0", "count1"}

MkInput(hf, specs) ==
    LET n == Len(specs)
    IN  CASE hf = "reserved" -> MkFile(1, 1, n, specs)
          [] hf = "type" -> MkFile(0, 2, n, specs)
          [] hf = "both0" -> MkFile(255, 255, 0, specs)
          [] hf = "count0" -> MkFile(0, 1, 0, specs)
          [] hf = "count1" -> MkFile(0, 1, n + 1, specs)
          [] OTHER -> MkFile(0, 1, n, specs)

\* truncated.ico and shorter: a good file cut inside the header, the
\* directory and the payload
Truncated ==
    {Slice(MkInput("good", <<[p |-> "bmp32", fix |-> "ok"]>>), 0, k) :
        k \in {0, 3, 6, 14, 22, 40}}

Inputs ==
    {MkInput(hf, specs) : hf \in HeaderFixes, specs \in SpecSeqs(MaxEntries)}
    \cup Truncated

\* the images given to Encode
ImageDims ==
    {<<1, 1>>, <<2, 1>>, <<1, 2>>, <<3, 2>>, <<255, 1>>, <<256, 1>>, <<1, 256>>,
     <<256, 2>>, <<2, 256>>, <<257, 1>>, <<1, 257>>, <<257, 2>>, <<0, 1>>}

Images == {TestImage(d[1], d[2], seed) : d \in ImageDims, seed \in {7, 200}}

-----------------------------------------------------------------------------
(* The state machine: a file is opened (or written by Encode) and the      *)
(* public functions are called on it.                                      *)

\* readAllICO not running, and no loop iteration under way
NotRead == [done |-> FALSE, err |-> Ok, n |-> 0]

ReadIdle == srcPad = 0 /\ consumed = 0 /\ limN = 0 /\ rRead = NotRead

IterIdle ==
    /\ pc = "idle"
    /\ rBytes = NotCalled /\ rForge = NotCalled /\ rImage = NotCalled
    /\ accesses = {}

\* no second file, and decode not in its loop
PairIdle == other = <<>> /\ rConfigOther = NotCalled /\ rDecodeOther = NotCalled

LoopIdle == fileBuf = <<>> /\ loopOn = FALSE /\ loopOut = <<>>

Init ==
    /\ file = <<>>
    /\ rDecode = NotCalled
    /\ rDecodeAll = NotCalled
    /\ rConfig = NotCalled
    /\ im = NoImage
    /\ rEncode = NotCalled
    /\ ReadIdle
    /\ IterIdle
    /\ PairIdle
    /\ LoopIdle

\* nothing is open: the state before and between sessions
Idle ==
    /\ file = <<>>
    /\ ~rDecode.called /\ ~rDecodeAll.called /\ ~rConfig.called
    /\ ~rEncode.called

\* a reader is opened on the bytes f
Open(f) ==
    /\ Idle
    /\ file' = f
    /\ rDecode' = NotCalled
    /\ rDecodeAll' = NotCalled
    /\ rConfig' = NotCalled
    /\ im' = NoImage
    /\ rEncode' = NotCalled
    /\ UNCHANGED <<readVars, iterVars, pairVars, loopVars>>

\* Encode(w, m) on a fresh file w, which is then reopened for reading
CallEncode(m) ==
    /\ Idle
    /\ im' = m
    /\ rEncode' = [called |-> TRUE, err |-> Encode(m).err]
    /\ file' = Encode(m).out
    /\ rDecode' = NotCalled
    /\ rDecodeAll' = NotCalled
    /\ rConfig' = NotCalled
    /\ UNCHANGED <<readVars, iterVars, pairVars, loopVars>>

CallDecode ==
    /\ ~rDecode.called
    /\ rDecode' = Decode(file)
    /\ UNCHANGED <<file, rDecodeAll, rConfig, im, rEncode, readVars, iterVars,
                   pairVars, loopVars>>

CallDecodeAll ==
    /\ ~rDecodeAll.called
    /\ rDecodeAll' = DecodeAll(file)
    /\ UNCHANGED <<file, rDecode, rConfig, im, rEncode, readVars, iterVars,
                   pairVars, loopVars>>

CallDecodeConfig ==
    /\ ~rConfig.called
    /\ rConfig' = DecodeConfig(file)
    /\ UNCHANGED <<file, rDecode, rDecodeAll, im, rEncode, readVars, iterVars,
                   pairVars, loopVars>>

\* the session ends once the three decoders have been called
Close ==
    /\ rDecode.called /\ rDecodeAll.called /\ rConfig.called
    /\ file' = <<>>
    /\ rDecode' = NotCalled
    /\ rDecodeAll' = NotCalled
    /\ rConfig' = NotCalled
    /\ im' = NoImage
    /\ rEncode' = NotCalled
    /\ UNCHANGED <<readVars, iterVars, pairVars, loopVars>>

Next ==
    \/ \E f \in Inputs : Open(f)
    \/ \E m \in Images : CallEncode(m)
    \/ CallDecode
    \/ CallDecodeAll
    \/ CallDecodeConfig
    \/ Close

Spec == Init /\ [][Next]_vars

-----------------------------------------------------------------------------
(* readAllICO step by step (lines 111-120): io.ReadAll drains an           *)
(* io.LimitedReader laid over the source.  The source yields the bytes of  *)
(* file and then srcPad bytes more, and never fails.                       *)

\* the bytes the source holds in all
srcLen == Len(file) + srcPad

\* the limit handed to io.LimitReader with the cap of the source
readLimit_cap == maxICOSize

\* the limit handed to io.LimitReader (line 112)
readLimit == maxICOSize + 1

\* the space io.ReadAll offers to one Read, its buffer growing as it fills
ChunkSizes == {maxICOSize \div 16, maxICOSize \div 8, maxICOSize \div 4}

Min(a, b) == IF a < b THEN a ELSE b

\* the sources read: short files as they are, and files followed by so many
\* bytes that the whole is just below, at, or above the cap
SourceFiles ==
    {<<>>, MkInput("good", <<[p |-> "png1", fix |-> "ok"]>>),
     MkInput("type", <<[p |-> "bmp32", fix |-> "ok"]>>)}

SourceLens ==
    {maxICOSize - 1, maxICOSize, maxICOSize + 1, maxICOSize + 2, 2 * maxICOSize}

\* io.ReadAll has not returned yet
Reading == ~rRead.done /\ (limN > 0 \/ consumed > 0)

\* readAllICO(r) is entered: r yields f and then p bytes more
OpenSource(f, p) ==
    /\ Idle /\ ReadIdle
    /\ file' = f
    /\ srcPad' = p
    /\ consumed' = 0
    /\ limN' = readLimit
    /\ rRead' = NotRead
    /\ UNCHANGED <<rDecode, rDecodeAll, rConfig, im, rEncode, iterVars,
                   pairVars, loopVars>>

\* one LimitedReader.Read into k bytes of space: the request is cut to N,
\* the source hands over what it has of it, and N drops by that much
ReadChunk(k) ==
    /\ Reading
    /\ limN > 0
    /\ consumed < srcLen
    /\ consumed' = consumed + Min(Min(k, limN), srcLen - consumed)
    /\ limN' = limN - Min(Min(k, limN), srcLen - consumed)
    /\ rRead' = [rRead EXCEPT !.n = @ + Min(Min(k, limN), srcLen - consumed)]
    /\ UNCHANGED <<file, srcPad, rDecode, rDecodeAll, rConfig, im, rEncode,
                   iterVars, pairVars, loopVars>>

\* Read reports io.EOF (N used up, or the source at its end): io.ReadAll
\* returns and readAllICO tests the length
ReadEnd ==
    /\ Reading
    /\ (limN <= 0 \/ consumed >= srcLen)
    /\ rRead' = [done |-> TRUE, err |-> readAllICOResult(rRead.n, <<>>).err,
                 n |-> rRead.n]
    /\ UNCHANGED <<file, srcPad, consumed, limN, rDecode, rDecodeAll, rConfig,
                   im, rEncode, iterVars, pairVars, loopVars>>

\* The rest of a public function can be followed when readAllICO failed or
\* when the buffer is file itself.
Followed == rRead.done /\ (rRead.err # Ok \/ srcPad = 0)

ReadDecode ==
    /\ Followed /\ ~rDecode.called
    /\ rDecode' = DecodeResult(decodeFile(readAllICOResult(rRead.n, file)))
    /\ UNCHANGED <<file, rDecodeAll, rConfig, im, rEncode, readVars, iterVars,
                   pairVars, loopVars>>

ReadDecodeAll ==
    /\ Followed /\ ~rDecodeAll.called
    /\ rDecodeAll' = DecodeAllResult(decodeFile(readAllICOResult(rRead.n, file)))
    /\ UNCHANGED <<file, rDecode, rConfig, im, rEncode, readVars, iterVars,
                   pairVars, loopVars>>

ReadDecodeConfig ==
    /\ Followed /\ ~rConfig.called
    /\ rConfig' = configFile(readAllICOResult(rRead.n, file))
    /\ UNCHANGED <<file, rDecode, rDecodeAll, im, rEncode, readVars, iterVars,
                   pairVars, loopVars>>

\* the calls have returned
CloseSource ==
    /\ rRead.done
    /\ Followed => (rDecode.called /\ rDecodeAll.called /\ rConfig.called)
    /\ file' = <<>>
    /\ rDecode' = NotCalled
    /\ rDecodeAll' = NotCalled
    /\ rConfig' = NotCalled
    /\ srcPad' = 0
    /\ consumed' = 0
    /\ limN' = 0
    /\ rRead' = NotRead
    /\ UNCHANGED <<im, rEncode, iterVars, pairVars, loopVars>>

NextRead ==
    \/ \E f \in SourceFiles :
          \E p \in {0} \cup {n - Len(f) : n \in SourceLens} : OpenSource(f, p)
    \/ \E k \in ChunkSizes : ReadChunk(k)
    \/ ReadEnd
    \/ ReadDecode
    \/ ReadDecodeAll
    \/ ReadDecodeConfig
    \/ CloseSource

SpecRead == Init /\ [][NextRead]_vars

-----------------------------------------------------------------------------
(* One iteration of the loop of decode (lines 150-225), statement by       *)
(* statement, on files of one entry whose payload is a DIB with chosen     *)
(* header fields.                                                          *)

\* a DIB header of ds bytes: BITMAPCOREHEADER for 12, otherwise a
\* BITMAPINFOHEADER cut to ds bytes or extended to them, the field at
\* ds-8 of an extended one holding extra; w, h, nc and extra are 32-bit values
DibHeader(ds, w, h, bits, nc, extra) ==
    IF ds = 12 THEN DibHeader12(w.lo, h.lo, bits)
    ELSE IF ds <= 40
    THEN Slice(Put32(W(ds)) \o Put32(w) \o Put32(h) \o Put16(1) \o Put16(bits)
               \o Zeros(16) \o Put32(nc) \o Put32(W(0)), 0, ds)
    ELSE Patch(Put32(W(ds)) \o Put32(w) \o Put32(h) \o Put16(1) \o Put16(bits)
               \o Zeros(16) \o Put32(nc) \o Put32(W(0)) \o Zeros(ds - 40),
               ds - 8, Put32(extra))

\* the header fields, the number of bytes after the header and the height
\* byte of the directory entry of one payload
DibCase(ds, w, h, bits, nc, extra, tail, eh) ==
    [ds |-> ds, w |-> w, h |-> h, bits |-> bits, nc |-> nc, extra |-> extra,
     tail |-> tail, eh |-> eh]

\* paletted and unpaletted depths under every header form
PaletteCases ==
    {DibCase(d, W(1), W(2), b, W(n), W(0),
             IF b = 8 /\ n \in {0, 300} THEN 1040 ELSE 80, 1) :
        d \in {12, 16, 40, 52, 64}, b \in {1, 2, 4, 8, 16, 24, 32},
        n \in {0, 2, 16, 300}}

\* widths, heights and directory heights around the height heuristic
HalvingDims ==
    {<<W(1), W(2), 1>>, <<W(1), W(3), 3>>, <<W(4), W(2), 4>>, <<W(4), W(2), 1>>,
     <<W(2), W(2), 9>>, <<W(3), W(4), 9>>, <<W(4), W(4), 2>>, <<W(2), W(4), 9>>,
     <<W(512), W(512), 0>>, <<W(512), W(512), 1>>, <<W(0), W(2), 1>>,
     <<W(2), W(0), 1>>, <<W(0), W(0), 1>>, <<W(1), W(1), 1>>,
     <<W(1), [hi |-> 65535, lo |-> 65534], 1>>,
     <<W(1), [hi |-> 65535, lo |-> 65535], 1>>,
     <<W(2), [hi |-> 65535, lo |-> 65533], 3>>}

HalvingCases ==
    {DibCase(d, t[1], t[2], b, W(0), W(0), 64, t[3]) :
        d \in {12, 40}, b \in {24, 32}, t \in HalvingDims}

\* headers longer than 40 bytes with an extra-data length
ExtraValue(d, x) ==
    CASE x = "none" -> W(0)
      [] x = "some" -> W(4)
      [] x = "most" -> W(31)
      [] x = "all" -> W(32)
      [] x = "max" -> [hi |-> 65535, lo |-> 65535]
      [] OTHER -> [hi |-> 65535, lo |-> 65536 - (d - 6)]

ExtraCases ==
    {DibCase(d, W(1), W(2), b, W(2), ExtraValue(d, x), 32, 1) :
        d \in {44, 52, 64}, b \in {8, 32},
        x \in {"none", "some", "most", "all", "max", "wrap"}}

\* mask rows of 4 and 8 bytes over payloads of several lengths
MaskCases ==
    {DibCase(d, W(w), W(h), b, W(0), W(0), t, 1) :
        d \in {12, 40}, b \in {1, 24}, w \in {1, 32, 33}, h \in {2, 4, 8},
        t \in {4, 8, 16, 40, 200}}

DibCases == PaletteCases \cup HalvingCases \cup ExtraCases \cup MaskCases

\* payloads declaring a header of 16 or 36 bytes, the bytes after it being
\* those of a BITMAPINFOHEADER with a color count
ShortHeaderDibs ==
    {Patch(DibHeader(40, W(1), W(2), b, W(n), W(0)) \o Ramp(80, 3), 0,
           Put32(W(d))) :
        d \in {16, 36}, b \in {4, 8, 24}, n \in {0, 2}}

DibCasePayload(c) ==
    DibHeader(c.ds, c.w, c.h, c.bits, c.nc, c.extra) \o Ramp(c.tail, 3)

\* a payload of len bytes declaring a DIB header of declared bytes
RawDib(declared, len) ==
    Slice(Put32(declared) \o SliceFrom(DibHeader40(1, 2, 32, 0), 4) \o Ramp(64, 3),
          0, len)

RawDibs ==
    {RawDib(d, n) :
        d \in {W(0), W(8), W(11), W(12), W(13), W(15), W(16), W(40), W(41),
               W(100), [hi |-> 32768, lo |-> 0], [hi |-> 65535, lo |-> 65535]},
        n \in {4, 11, 12, 13, 15, 16, 39, 40, 44, 60}}

\* the file of one entry holding payload, the entry announcing the height eh
IterFile(payload, eh, bits) ==
    Put16(0) \o Put16(1) \o Put16(1) \o <<1, eh, 0, 0>> \o Put16(1) \o Put16(bits)
    \o Put32(W(Len(payload))) \o Put32(W(headSize + direntrySize)) \o payload

IterInputs ==
    {IterFile(DibCasePayload(c), c.eh, c.bits) : c \in DibCases}
    \cup {IterFile(d, 1, 32) : d \in RawDibs \cup ShortHeaderDibs}
    \cup {MkInput("good", <<sp>>) : sp \in EntrySpecs1}

\* the entry of the iteration: the only one of the file
iterEntry == direntry(file, headSize)

\* the file is read and its directory parsed; the loop is entered
Load(f) ==
    /\ Idle /\ ReadIdle /\ IterIdle
    /\ file' = f
    /\ pc' = "extract"
    /\ UNCHANGED <<rDecode, rDecodeAll, rConfig, im, rEncode, readVars, rBytes,
                   rForge, rImage, accesses, pairVars, loopVars>>

\* entryData, err := d.entryBytes(file, e) (lines 153-156)
StepEntryBytes ==
    /\ pc = "extract"
    /\ rBytes' = entryBytes(file, iterEntry)
    /\ rImage' = IF entryBytes(file, iterEntry).err # Ok
                 THEN [err |-> entryBytes(file, iterEntry).err, img |-> NilImage]
                 ELSE rImage
    /\ pc' = IF entryBytes(file, iterEntry).err # Ok THEN "done" ELSE "sniff"
    /\ accesses' = accesses \cup entryBytesAcc(file, iterEntry)
    /\ UNCHANGED <<file, rDecode, rDecodeAll, rConfig, im, rEncode, readVars,
                   rForge, pairVars, loopVars>>

\* the PNG branch (lines 158-163)
StepPNG ==
    /\ pc = "sniff"
    /\ isPNG(rBytes.data)
    /\ rImage' = pngDecode(rBytes.data)
    /\ pc' = "done"
    /\ accesses' = accesses \cup sniffAcc(rBytes.data)
    /\ UNCHANGED <<file, rDecode, rDecodeAll, rConfig, im, rEncode, readVars,
                   rBytes, rForge, pairVars, loopVars>>

\* the copy behind 14 bytes and forgeBMPHead (lines 166-172)
StepForge ==
    /\ pc = "sniff"
    /\ ~isPNG(rBytes.data)
    /\ rForge' = forgeBMPHead(rBytes.data, iterEntry)
    /\ rImage' = IF forgeBMPHead(rBytes.data, iterEntry).err # Ok
                 THEN [err |-> forgeBMPHead(rBytes.data, iterEntry).err,
                       img |-> NilImage]
                 ELSE rImage
    /\ pc' = IF forgeBMPHead(rBytes.data, iterEntry).err # Ok
             THEN "done" ELSE "bmp"
    /\ accesses' = accesses \cup sniffAcc(rBytes.data)
                   \cup forgeAcc(rBytes.data, iterEntry)
    /\ UNCHANGED <<file, rDecode, rDecodeAll, rConfig, im, rEncode, readVars,
                   rBytes, pairVars, loopVars>>

\* bmp.Decode and the compositing (lines 174-224)
StepBMP ==
    /\ pc = "bmp"
    /\ rImage' = forgedBMP(rForge)
    /\ pc' = "done"
    /\ accesses' = accesses \cup bmpAcc(rForge)
    /\ UNCHANGED <<file, rDecode, rDecodeAll, rConfig, im, rEncode, readVars,
                   rBytes, rForge, pairVars, loopVars>>

\* bmp.Decode and the compositing (lines 174-224), the BMP decoder being one
\* that returns an image although the pixel rows are cut short
StepBMPShort ==
    /\ pc = "bmp"
    /\ bmpDecode(Slice(rForge.buf, 0, rForge.bmpSize)).err # Ok
    /\ bmpDecodeShort(Slice(rForge.buf, 0, rForge.bmpSize)).err = Ok
    /\ rImage' = decodedBMP(rForge,
                            bmpDecodeShort(Slice(rForge.buf, 0, rForge.bmpSize)))
    /\ pc' = "done"
    /\ accesses' = accesses \cup {Acc("buf", Len(rForge.buf), 0, rForge.bmpSize)}
                   \cup compositeAcc(rForge,
                           bmpDecodeShort(Slice(rForge.buf, 0, rForge.bmpSize)))
    /\ UNCHANGED <<file, rDecode, rDecodeAll, rConfig, im, rEncode, readVars,
                   rBytes, rForge, pairVars, loopVars>>

\* the iteration is over
EndIter ==
    /\ pc = "done"
    /\ file' = <<>>
    /\ pc' = "idle"
    /\ rBytes' = NotCalled
    /\ rForge' = NotCalled
    /\ rImage' = NotCalled
    /\ accesses' = {}
    /\ UNCHANGED <<rDecode, rDecodeAll, rConfig, im, rEncode, readVars,
                   pairVars, loopVars>>

NextIter ==
    \/ \E f \in IterInputs : Load(f)
    \/ StepEntryBytes
    \/ StepPNG
    \/ StepForge
    \/ StepBMP
    \/ StepBMPShort
    \/ EndIter

SpecIter == Init /\ [][NextIter]_vars

-----------------------------------------------------------------------------
(* Two files of the same length: DecodeConfig and Decode are called on     *)
(* file and on other, which is file with one byte replaced.                *)

\* the first and the later entries of the files compared
PairFirst ==
    {[p |-> k, fix |-> "ok"] : k \in {"png1", "png2", "bmp1", "bmp32"}}
    \cup {[p |-> "png1", fix |-> "over"]}

PairLater == {[p |-> k, fix |-> "ok"] : k \in {"png1", "bmp32", "pngTrunc"}}

\* files of two entries, and one whose first entry has its payload range laid
\* over the second directory entry
PairFiles ==
    {MkInput("good", <<a, b>>) : a \in PairFirst, b \in PairLater}
    \cup {Patch(MkInput("good", <<[p |-> "bmp32", fix |-> "ok"],
                                  [p |-> "png1", fix |-> "ok"]>>),
                headSize + 12, Put32(W(headSize + direntrySize)))}

\* the values put in place of the byte old
PatchValues(old) == {(old + 1) % 256, (old + 128) % 256}

\* readers are opened on f and on f with byte p replaced by v
OpenPair(f, p, v) ==
    /\ Idle /\ ReadIdle /\ IterIdle /\ PairIdle /\ LoopIdle
    /\ file' = f
    /\ other' = Patch(f, p, <<v>>)
    /\ UNCHANGED <<rDecode, rDecodeAll, rConfig, im, rEncode, readVars, iterVars,
                   rConfigOther, rDecodeOther, loopVars>>

\* DecodeConfig is called on file and then on other, Decode likewise
CallDecodeConfigOther ==
    /\ other # <<>>
    /\ rConfig.called
    /\ rConfigOther = NotCalled
    /\ rConfigOther' = DecodeConfig(other)
    /\ UNCHANGED <<file, rDecode, rDecodeAll, rConfig, im, rEncode, readVars,
                   iterVars, other, rDecodeOther, loopVars>>

CallDecodeOther ==
    /\ other # <<>>
    /\ rDecode.called
    /\ rDecodeOther = NotCalled
    /\ rDecodeOther' = Decode(other)
    /\ UNCHANGED <<file, rDecode, rDecodeAll, rConfig, im, rEncode, readVars,
                   iterVars, other, rConfigOther, loopVars>>

\* both sessions end once the two decoders have been called on both files
ClosePair ==
    /\ rConfig.called /\ rDecode.called
    /\ rConfigOther # NotCalled /\ rDecodeOther # NotCalled
    /\ file' = <<>>
    /\ other' = <<>>
    /\ rConfig' = NotCalled
    /\ rDecode' = NotCalled
    /\ rConfigOther' = NotCalled
    /\ rDecodeOther' = NotCalled
    /\ UNCHANGED <<rDecodeAll, im, rEncode, readVars, iterVars, loopVars>>

NextPair ==
    \/ \E f \in PairFiles : \E p \in 0..(Len(f) - 1) :
          \E v \in PatchValues(At(f, p)) : OpenPair(f, p, v)
    \/ (file # <<>> /\ CallDecodeConfig)
    \/ (rConfigOther # NotCalled /\ CallDecode)
    \/ CallDecodeConfigOther
    \/ CallDecodeOther
    \/ ClosePair

SpecPair == Init /\ [][NextPair]_vars

-----------------------------------------------------------------------------
(* The loop of decode entry by entry (lines 149-225), the buffer of the    *)
(* file being state: every write of an iteration lands in the buffer it    *)
(* names.                                                                  *)

\* a file of n entries that all name the bytes of payload from delta on
SharedFile(payload, n, delta) ==
    Put16(0) \o Put16(1) \o Put16(n)
    \o [k \in 1..(direntrySize * n) |->
          (<<1, 1, 0, 0>> \o Put16(1) \o Put16(32)
           \o Put32(W(Len(payload) - (IF k > direntrySize THEN delta ELSE 0)))
           \o Put32(W(headSize + direntrySize * n
                      + (IF k > direntrySize THEN delta ELSE 0))))
          [((k - 1) % direntrySize) + 1]]
    \o payload

LoopFiles ==
    {SharedFile(Payload(k), n, delta) :
        k \in {"bmp32", "bmp32w2", "bmp1", "bmp24", "bmpCore", "bmpNoHalve",
               "bmpZeroW", "bmpTall", "png1"},
        n \in {2, 3}, delta \in {0, 4}}
    \cup {MkInput("good", <<a, b>>) : a \in EntrySpecs2, b \in EntrySpecs2}

\* d.entries, read from the file before the loop
loopEntries == decodeEntries(file, decodeHeader(file).head).entries

\* the loop has ended: every entry is done or an iteration returned an error
LoopOver ==
    \/ Len(loopOut) = Len(loopEntries)
    \/ Len(loopOut) > 0 /\ loopOut[Len(loopOut)].err # Ok

\* readAllICO, decodeHeader and decodeEntries have returned without error
LoadLoop(f) ==
    /\ Idle /\ ReadIdle /\ IterIdle /\ PairIdle /\ LoopIdle
    /\ decodeHeader(f).err = Ok
    /\ decodeEntries(f, decodeHeader(f).head).err = Ok
    /\ file' = f
    /\ fileBuf' = f
    /\ loopOn' = TRUE
    /\ loopOut' = <<>>
    /\ UNCHANGED <<rDecode, rDecodeAll, rConfig, im, rEncode, readVars, iterVars,
                   pairVars>>

\* one iteration of the loop, on the buffer as it is now
LoopIteration ==
    /\ loopOn /\ ~LoopOver
    /\ loopOut' =
          Append(loopOut,
                 [err |-> IF entryBytes(fileBuf, loopEntries[Len(loopOut) + 1]).err
                             # Ok
                          THEN entryBytes(fileBuf,
                                          loopEntries[Len(loopOut) + 1]).err
                          ELSE decodeEntry(
                                 entryBytes(fileBuf,
                                            loopEntries[Len(loopOut) + 1]).data,
                                 loopEntries[Len(loopOut) + 1]).err,
                  img |-> IF entryBytes(fileBuf, loopEntries[Len(loopOut) + 1]).err
                             # Ok
                          THEN NilImage
                          ELSE decodeEntry(
                                 entryBytes(fileBuf,
                                            loopEntries[Len(loopOut) + 1]).data,
                                 loopEntries[Len(loopOut) + 1]).img,
                  writes |-> iterationWrites(
                               loopEntries[Len(loopOut) + 1],
                               entryBytes(fileBuf,
                                          loopEntries[Len(loopOut) + 1]))])
    /\ fileBuf' =
          written(written(fileBuf, "file", 0,
                          iterationWrites(
                            loopEntries[Len(loopOut) + 1],
                            entryBytes(fileBuf, loopEntries[Len(loopOut) + 1]))),
                  "entryData",
                  entryBytes(fileBuf, loopEntries[Len(loopOut) + 1]).from,
                  iterationWrites(
                    loopEntries[Len(loopOut) + 1],
                    entryBytes(fileBuf, loopEntries[Len(loopOut) + 1])))
    /\ UNCHANGED <<file, rDecode, rDecodeAll, rConfig, im, rEncode, readVars,
                   iterVars, pairVars, loopOn>>

\* decode returns
EndLoop ==
    /\ loopOn /\ LoopOver
    /\ file' = <<>>
    /\ fileBuf' = <<>>
    /\ loopOn' = FALSE
    /\ loopOut' = <<>>
    /\ UNCHANGED <<rDecode, rDecodeAll, rConfig, im, rEncode, readVars, iterVars,
                   pairVars>>

NextLoop ==
    \/ \E f \in LoopFiles : LoadLoop(f)
    \/ LoopIteration
    \/ EndLoop

SpecLoop == Init /\ [][NextLoop]_vars

-----------------------------------------------------------------------------
(* What the file on hand says, read straight from its bytes                *)

\* the header is there and passes the reserved and type checks
HeaderValid == Len(file) >= headSize /\ LE16(file, 0) = 0 /\ LE16(file, 2) = 1

\* the entry count of the header
Count == LE16(file, 4)

\* the header is valid and all the entries it announces are in the file
DirComplete ==
    HeaderValid /\ Count >= 1 /\ Len(file) >= headSize + direntrySize * Count

\* directory entry i (0-based) and the end of its payload range
EntryAt(i) == direntry(file, headSize + direntrySize * i)
EntryEnd(i) == WAdd(EntryAt(i).Offset, EntryAt(i).Size)

\* entry i passes extraction and decoding when taken alone
EntryGood(i) ==
    LET eb == entryBytes(file, EntryAt(i))
    IN  eb.err = Ok /\ decodeEntry(eb.data, EntryAt(i)).err = Ok

\* the loop of decode gets to entry i: every entry before it is good
Reached(i) ==
    DirComplete /\ i < Count /\ \A j \in 0..(i - 1) : EntryGood(j)

\* the indices of the payloads a call sliced
SlicedIdx(r) == {s.i : s \in r.sliced}

\* the payload range of entry i is not empty and lies in the file
InFile(i) ==
    ~WEq(EntryAt(i).Size, W(0)) /\ WLe(EntryEnd(i), W(Len(file)))

\* the payload of entry i starts with the 8 bytes of the PNG signature
Sniff(i) ==
    /\ InFile(i)
    /\ ToInt(EntryAt(i).Size) >= 8
    /\ \A k \in 0..7 :
          At(file, ToInt(EntryAt(i).Offset) + k)
          = At(<<137, 80, 78, 71, 13, 10, 26, 10>>, k)

\* the call failed decoding entry i: it is the last one sliced, and the next
\* one, if any, would have been sliced too
FailedAt(r, i) ==
    /\ r.err # Ok
    /\ i \in SlicedIdx(r) /\ \A j \in SlicedIdx(r) : j <= i
    /\ i + 1 < r.parsed => InFile(i + 1)

-----------------------------------------------------------------------------
(* What the payload given to forgeBMPHead says, read straight from its     *)
(* bytes, and what the forged buffer holds                                 *)

\* forgeBMPHead has returned in this iteration
ForgeCalled == rForge # NotCalled

\* the payload: entryData, copied to buf[14:]
dibData == rBytes.data

\* the DIB header size the payload declares
DeclaredSize == LE32(dibData, 0)

\* the declared size is at least 12 and within the payload, and the fields
\* of the header are within the payload too
HeaderRead ==
    /\ ForgeCalled
    /\ Len(dibData) >= 4
    /\ WLe(W(12), DeclaredSize) /\ WLe(DeclaredSize, W(Len(dibData)))
    /\ DeclaredSize = W(12) \/ Len(dibData) >= 16

IsCore == DeclaredSize = W(12)

DibWidth == IF IsCore THEN W(LE16(dibData, 4)) ELSE LE32(dibData, 4)
DibHeight == IF IsCore THEN W(LE16(dibData, 6)) ELSE LE32(dibData, 8)
DibBits == IF IsCore THEN LE16(dibData, 10) ELSE LE16(dibData, 14)

\* the color count: the field at byte 32 of a payload of 36 bytes or more
\* whose header is not the 12-byte one
DibColors == IF ~IsCore /\ Len(dibData) >= 36 THEN LE32(dibData, 32) ELSE W(0)

\* the extra-data length: the field at DeclaredSize - 8 of a header longer
\* than 40 bytes
DibExtra ==
    IF WLt(W(40), DeclaredSize) THEN LE32(dibData, ToInt(DeclaredSize) - 8)
    ELSE W(0)

\* the height of the directory entry, 0 read as 256
DirHeight == IF iterEntry.Height = 0 THEN W(256) ELSE W(iterEntry.Height)

\* the height the heuristic arrives at: h/2 when h is even and h/2 is the
\* directory height or the width, or h exceeds the width; h otherwise
IsHalved ==
    /\ DibHeight.lo % 2 = 0
    /\ \/ WHalf(DibHeight) = DirHeight
       \/ WHalf(DibHeight) = DibWidth
       \/ WLt(DibWidth, DibHeight)

PlaneHeight == IF IsHalved THEN WHalf(DibHeight) ELSE DibHeight

\* ceil(w/32)*4, for a width the model's integers hold
MaskStride == ((ToInt(DibWidth) + 31) \div 32) * 4

\* the entries of the color table and the bytes of one, as forging counts them
TableEntries ==
    IF DibBits \in {1, 2, 4, 8}
    THEN IF DibColors # W(0) /\ WLt(DibColors, W(2 ^ DibBits))
         THEN ToInt(DibColors) ELSE 2 ^ DibBits
    ELSE 0

TableEntrySize == IF DeclaredSize \in {W(12), W(64)} THEN 3 ELSE 4

\* the fields of the forged buffer
ForgedHeight ==
    IF IsCore THEN W(LE16(rForge.buf, 14 + 6)) ELSE LE32(rForge.buf, 14 + 8)
ForgedWidth ==
    IF IsCore THEN W(LE16(rForge.buf, 14 + 4)) ELSE LE32(rForge.buf, 14 + 4)
ForgedSize == LE32(rForge.buf, 2)
ForgedOffset == LE32(rForge.buf, 10)

-----------------------------------------------------------------------------
(* What the loop of decode has done so far                                 *)

\* what the iteration on entry i (from 1) ends with when it is the only one
\* run on the bytes of file
decodedAlone(i) ==
    IF entryBytes(file, loopEntries[i]).err # Ok
    THEN [err |-> entryBytes(file, loopEntries[i]).err, img |-> NilImage]
    ELSE decodeEntry(entryBytes(file, loopEntries[i]).data, loopEntries[i])

\* the payload of entry i is a bitmap that forgeBMPHead accepts
ForgedOk(i) ==
    /\ entryBytes(file, loopEntries[i]).err = Ok
    /\ ~isPNG(entryBytes(file, loopEntries[i]).data)
    /\ forgeBMPHead(entryBytes(file, loopEntries[i]).data, loopEntries[i]).err
       = Ok

-----------------------------------------------------------------------------
(* What DecodeConfig has to go by                                          *)

\* the first directory entry of b has its payload range within b
FirstInFile(b) ==
    /\ Len(b) >= headSize + direntrySize
    /\ WLt(W(0), direntry(b, headSize).Size)
    /\ WLe(WAdd(direntry(b, headSize).Offset, direntry(b, headSize).Size),
           W(Len(b)))

\* byte p of b belongs to the header, the first directory entry or the
\* payload range of the first entry
ConfigByte(b, p) ==
    \/ p < headSize + direntrySize
    \/ /\ FirstInFile(b)
       /\ WLe(direntry(b, headSize).Offset, W(p))
       /\ WLt(W(p), WAdd(direntry(b, headSize).Offset,
                         direntry(b, headSize).Size))

\* a and b have the same length and differ in no byte of those
SameForConfig(a, b) ==
    /\ Len(a) = Len(b)
    /\ \A p \in 0..(Len(a) - 1) : ConfigByte(a, p) => At(a, p) = At(b, p)

-----------------------------------------------------------------------------
(* What the iteration stored for a BMP entry                               *)

\* the iteration ended with the composited image of a BMP entry in d.images
Composited ==
    /\ pc = "done"
    /\ ForgeCalled /\ rForge.err = Ok
    /\ rImage.err = Ok /\ rImage.img.kind = "masked"

\* the size of the image the BMP decoder returned
ImageW == rImage.img.w
ImageH == rImage.img.h

\* the alpha of pixel (col, y) of the stored image
OutAlpha(col, y) == rImage.img.alpha[y * ImageW + col + 1]

\* the forged bitmap handed to the BMP decoder: data[:bmpSize]
ForgedBitmap == Slice(rForge.buf, 0, rForge.bmpSize)

\* the width and height the BMP decoder reports for the forged bitmap
DecoderDims == bmpDecodeConfig(ForgedBitmap)

\* off + w*4*h exceeds n, for 32-bit values w >= 1, h >= 1 and off
AlphaExceeds(w, h, off, n) ==
    IF WLt(W(n), w) \/ WLt(W(n), h) \/ WLt(W(n), off) THEN TRUE
    ELSE ToInt(off) + ToInt(w) * 4 * ToInt(h) > n

-----------------------------------------------------------------------------
(* The claims                                                              *)

\* C1: Encode fails with ErrImageTooLarge whenever the width or the height
\* of the image exceeds 256, and succeeds for an image of exactly 256x256.
C1_EncodeRejectsTooLarge ==
    rEncode.called =>
        /\ (im.w > 256 \/ im.h > 256) => rEncode.err = "ImageTooLarge"
        /\ (im.w = 256 /\ im.h = 256) => rEncode.err = Ok

\* C2: for every image with width and height in 1..256, Decode of the bytes
\* Encode wrote succeeds and returns an image with the same bounds and the
\* same value at every pixel.
C2_RoundTrip ==
    (rEncode.called /\ rDecode.called
     /\ im.w \in 1..256 /\ im.h \in 1..256) =>
        /\ rEncode.err = Ok
        /\ rDecode.err = Ok
        /\ Bounds(rDecode.img) = Bounds(im)
        /\ rDecode.img.pix = im.pix

C2_Witness ==
    /\ rEncode.called /\ rDecode.called
    /\ im.w = 256 /\ im.h = 2
    /\ rDecode.err = Ok
    /\ At(file, 6) = 0 /\ At(file, 7) = 2
    /\ Len(rDecode.img.pix) = 512

\* C3: when DecodeAll succeeds its list has as many images as the header
\* counts, and image i is the decoding of the payload of directory entry i.
C3_DecodeAllInOrder ==
    (rDecodeAll.called /\ rDecodeAll.err = Ok) =>
        /\ ~rDecodeAll.images.isNil
        /\ Len(rDecodeAll.images.list) = Count
        /\ \A i \in 0..(Count - 1) :
              /\ IsSmall(EntryEnd(i))
              /\ rDecodeAll.images.list[i + 1]
                 = decodeEntry(Slice(file, ToInt(EntryAt(i).Offset),
                                     ToInt(EntryEnd(i))), EntryAt(i)).img

C3_Witness ==
    /\ rDecodeAll.called /\ rDecodeAll.err = Ok
    /\ Count = 2
    /\ rDecodeAll.images.list[1].kind = "png"
    /\ rDecodeAll.images.list[2].kind = "masked"

\* C4: Decode succeeds exactly when DecodeAll on the same bytes succeeds, its
\* image is then element 0 of DecodeAll's list, and under a header that
\* passed validation Decode reports "no images" only for an entry count of 0.
C4_DecodeIsFirstOfAll ==
    (rDecode.called /\ rDecodeAll.called) =>
        /\ (rDecode.err = Ok) <=> (rDecodeAll.err = Ok)
        /\ rDecode.err = Ok => rDecode.img = rDecodeAll.images.list[1]
        /\ (HeaderValid /\ rDecode.err = "NoImages") => Count = 0

C4_Witness ==
    /\ rDecode.called /\ rDecodeAll.called
    /\ rDecode.err = Ok
    /\ Len(rDecodeAll.images.list) = 2
    /\ rDecodeAll.images.list[1] # rDecodeAll.images.list[2]

\* C5: with a nonzero reserved field or a type other than 1 in the 6-byte
\* header, Decode and DecodeConfig fail with CorruptHeader, whatever the count
\* and the rest of the file are, and no directory entry has been parsed.
C5_CorruptHeader ==
    (Len(file) >= headSize /\ (LE16(file, 0) # 0 \/ LE16(file, 2) # 1)) =>
        /\ rDecode.called =>
              rDecode.err = "CorruptHeader" /\ rDecode.parsed = 0
        /\ rConfig.called =>
              rConfig.err = "CorruptHeader" /\ rConfig.parsed = 0

C5_Witness ==
    /\ Len(file) >= headSize + direntrySize
    /\ LE16(file, 2) # 1
    /\ Count = 0
    /\ rDecode.called /\ rConfig.called

\* C6: with reserved = 0, type = 1 and a count of 0, Decode and DecodeConfig
\* fail with NoImages.
C6_NoImages ==
    (HeaderValid /\ Count = 0) =>
        /\ rDecode.called => rDecode.err = "NoImages"
        /\ rConfig.called => rConfig.err = "NoImages"

C6_Witness ==
    /\ HeaderValid /\ Count = 0
    /\ Len(file) > headSize
    /\ rDecode.called /\ rConfig.called

\* C7: a directory entry with a size field of 0 that decoding gets to makes
\* it fail with CorruptEntry, whatever the offset field is, and no payload is
\* sliced for that entry.
C7_ZeroSizeEntry ==
    \A i \in 0..(MaxEntries + 1) :
        (Reached(i) /\ WEq(EntryAt(i).Size, W(0))) =>
            /\ rDecode.called =>
                  rDecode.err = "CorruptEntry" /\ i \notin SlicedIdx(rDecode)
            /\ rDecodeAll.called =>
                  rDecodeAll.err = "CorruptEntry"
                  /\ i \notin SlicedIdx(rDecodeAll)
            /\ (rConfig.called /\ i = 0) =>
                  rConfig.err = "CorruptEntry" /\ rConfig.sliced = {}

C7_Witness ==
    /\ Reached(1)
    /\ WEq(EntryAt(1).Size, W(0))
    /\ WLt(W(Len(file)), EntryAt(1).Offset)
    /\ rDecode.called /\ rDecodeAll.called

\* C8: a directory entry with positive size that decoding gets to and whose
\* offset + size (summed without wraparound) exceeds the file length makes it
\* fail with the unexpected-EOF error; when offset + size is at most the file
\* length the payload sliced is exactly file[offset .. offset+size).
C8_PayloadRange ==
    \A i \in 0..(MaxEntries + 1) :
        (Reached(i) /\ ~WEq(EntryAt(i).Size, W(0)) /\ rDecode.called) =>
            IF WLt(W(Len(file)), EntryEnd(i))
            THEN rDecode.err = "UnexpectedEOF" /\ i \notin SlicedIdx(rDecode)
            ELSE [i |-> i,
                  data |-> [k \in 1..ToInt(EntryAt(i).Size) |->
                               file[ToInt(EntryAt(i).Offset) + k]]]
                 \in rDecode.sliced

C8_Witness ==
    /\ Reached(0)
    /\ EntryAt(0).Offset.hi = 65535
    /\ WLe(WAdd32(EntryAt(0).Offset, EntryAt(0).Size), W(Len(file)))
    /\ rDecode.called /\ rDecode.err = "UnexpectedEOF"

\* C9: if any directory entry, first or later, fails extraction or decoding,
\* DecodeAll returns an error and no list; a list it returns holds no nil
\* image.
C9_AllOrNothing ==
    rDecodeAll.called =>
        /\ rDecodeAll.err # Ok => rDecodeAll.images = NilList
        /\ (DirComplete /\ \E i \in 0..(Count - 1) : ~EntryGood(i)) =>
              rDecodeAll.err # Ok
        /\ rDecodeAll.err = Ok =>
              \A k \in 1..Len(rDecodeAll.images.list) :
                  rDecodeAll.images.list[k] # NilImage

C9_Witness ==
    /\ rDecodeAll.called
    /\ DirComplete /\ Count = 2
    /\ EntryGood(0) /\ ~EntryGood(1)
    /\ 0 \in SlicedIdx(rDecodeAll)
    /\ rDecodeAll.err # Ok

\* C10: whenever DecodeConfig and Decode both succeed, DecodeConfig reports
\* the width and height of the bounds of Decode's image, for a PNG-backed and
\* for a BMP-backed first entry (there: the height after halving).
C10_ConfigMatchesDecode ==
    (rConfig.called /\ rDecode.called
     /\ rConfig.err = Ok /\ rDecode.err = Ok) =>
        /\ rConfig.w = W(rDecode.img.w)
        /\ rConfig.h = W(rDecode.img.h)

C10_Witness ==
    /\ rConfig.called /\ rDecode.called
    /\ rConfig.err = Ok /\ rDecode.err = Ok
    /\ rDecode.img.kind = "masked"
    /\ Reached(0)
    /\ LE32(file, ToInt(EntryAt(0).Offset) + 8) = W(2 * rDecode.img.h)

\* C11: Decode, DecodeAll and DecodeConfig fail with the "too large" error
\* whenever the source yields more than maxICOSize bytes, at most
\* maxICOSize + 1 bytes of it are ever consumed, and a source of maxICOSize
\* bytes or fewer is read whole and never rejected as too large.
C11_BoundedIngestion ==
    /\ consumed <= maxICOSize + 1
    /\ rRead.done =>
          IF srcLen > maxICOSize
          THEN /\ rRead.err = "TooLarge"
               /\ rDecode.called => rDecode.err = "TooLarge"
               /\ rDecodeAll.called => rDecodeAll.err = "TooLarge"
               /\ rConfig.called => rConfig.err = "TooLarge"
          ELSE /\ rRead.err = Ok /\ rRead.n = srcLen
               /\ rDecode.called => rDecode.err # "TooLarge"
               /\ rDecodeAll.called => rDecodeAll.err # "TooLarge"
               /\ rConfig.called => rConfig.err # "TooLarge"

C11_Witness ==
    /\ rRead.done
    /\ srcLen = 2 * maxICOSize
    /\ consumed = maxICOSize + 1
    /\ rDecode.called /\ rDecodeAll.called /\ rConfig.called
    /\ rDecode.err = "TooLarge"

\* C12: on success Encode writes the 6-byte header (reserved 0, type 1,
\* count 1), one 16-byte entry with planes 1, bits 32, size = length of the
\* PNG stream, offset 22 and the width and height modulo 256 (256 written as
\* 0), then the PNG bytes; the output is 22 + PNG length long and the entry's
\* offset + size is the output length.
C12_EncodeLayout ==
    (rEncode.called /\ rEncode.err = Ok) =>
        /\ Len(file) = headSize + direntrySize + Len(pngEncode(im))
        /\ Slice(file, 0, 6) = <<0, 0, 1, 0, 1, 0>>
        /\ At(file, 6) = im.w % 256
        /\ At(file, 7) = im.h % 256
        /\ im.w = 256 => At(file, 6) = 0
        /\ im.h = 256 => At(file, 7) = 0
        /\ Slice(file, 10, 12) = <<1, 0>>
        /\ Slice(file, 12, 14) = <<32, 0>>
        /\ ToInt(LE32(file, 14)) = Len(pngEncode(im))
        /\ ToInt(LE32(file, 18)) = 22
        /\ SliceFrom(file, 22) = pngEncode(im)
        /\ ToInt(LE32(file, 18)) + ToInt(LE32(file, 14)) = Len(file)

C12_Witness ==
    /\ rEncode.called /\ rEncode.err = Ok
    /\ im.w = 256 /\ im.h = 1
    /\ At(file, 6) = 0 /\ At(file, 7) = 1
    /\ Len(file) = 22 + 16 + 256

\* C13: each entry is decoded on the PNG path if and only if its payload has
\* at least 8 bytes and starts with 89 50 4E 47 0D 0A 1A 0A, and on the BMP
\* path otherwise, whatever the bits and planes fields of the directory say
\* and whatever path the other entries of the file take.
C13_FormatDispatch ==
    /\ rDecodeAll.called =>
          \A i \in SlicedIdx(rDecodeAll) :
              IF rDecodeAll.err = Ok
              THEN (rDecodeAll.images.list[i + 1].kind = "png") <=> Sniff(i)
              ELSE FailedAt(rDecodeAll, i) =>
                       ((rDecodeAll.err = "PngError") <=> Sniff(i))
    /\ (rConfig.called /\ 0 \in SlicedIdx(rConfig)) =>
          IF rConfig.err = Ok
          THEN Sniff(0) =>
                   /\ rConfig.w = BE32(file, ToInt(EntryAt(0).Offset) + 8)
                   /\ rConfig.h = BE32(file, ToInt(EntryAt(0).Offset) + 12)
          ELSE (rConfig.err = "PngError") <=> Sniff(0)

C13_Witness ==
    /\ rDecodeAll.called /\ rDecodeAll.err = Ok
    /\ Count = 2
    /\ Sniff(0) /\ ~Sniff(1)
    /\ EntryAt(0).Bits = EntryAt(1).Bits
    /\ rDecodeAll.images.list[2].kind = "masked"

\* C14: every slice and index expression of entry extraction, header forging,
\* mask decoding and alpha extraction stays within the buffer it indexes, and
\* the iteration ends with an image or with an error.
C14_AccessesInBounds ==
    /\ \A a \in accesses : 0 <= a.lo /\ a.lo <= a.hi /\ a.hi <= a.len
    /\ pc = "done" => (rImage.err = Ok) <=> (rImage.img # NilImage)

C14_Witness ==
    /\ pc = "done"
    /\ rImage.err = "UnexpectedEOF"
    /\ rForge # NotCalled
    /\ Len(rBytes.data) \in 13..15
    /\ WLe(LE32(rBytes.data, 0), W(Len(rBytes.data)))
    /\ Acc("data", Len(rBytes.data), 0, 4) \in accesses

\* C15 as stated: forging rejects with CorruptDibHeader every payload whose
\* declared DIB header size is below 12 and every payload whose declared size
\* exceeds the payload bytes available.
C15_BadDibSizeIsCorrupt ==
    (ForgeCalled /\ Len(dibData) >= 4
     /\ (WLt(DeclaredSize, W(12)) \/ WLt(W(Len(dibData)), DeclaredSize))) =>
        rForge.err = "CorruptDIB"

\* C15 amended: forging rejects with CorruptDibHeader every payload whose
\* declared DIB header size is below 12, and with the unexpected-end error
\* every payload whose declared size is 12 or more and exceeds the payload
\* bytes available.
C15_BadDibSizeRejected ==
    (ForgeCalled /\ Len(dibData) >= 4) =>
        /\ WLt(DeclaredSize, W(12)) => rForge.err = "CorruptDIB"
        /\ (WLe(W(12), DeclaredSize) /\ WLt(W(Len(dibData)), DeclaredSize)) =>
              rForge.err = "UnexpectedEOF"

C15_Witness ==
    /\ ForgeCalled
    /\ Len(dibData) = 39 /\ DeclaredSize = W(40)
    /\ rForge.err = "UnexpectedEOF"

\* C16: forging halves the height h of the DIB header and rewrites the height
\* field of the forged buffer if and only if h is even and (h/2 = H or
\* h/2 = w or h > w), H being the directory height (0 read as 256) and w the
\* width; otherwise the field is left as it is.  No other byte of the payload
\* is changed.
C16_HeightHalving ==
    (HeaderRead /\ rForge.err = Ok) =>
        /\ ForgedHeight = PlaneHeight
        /\ \A k \in 0..(Len(dibData) - 1) :
              (k \notin (IF IsCore THEN 6..7 ELSE 8..11)) =>
                  At(rForge.buf, 14 + k) = At(dibData, k)

C16_Witness ==
    /\ HeaderRead /\ rForge.err = Ok
    /\ DibWidth = W(4) /\ DibHeight = W(4) /\ DirHeight = W(2)
    /\ ForgedHeight = W(2)

\* C17 as stated: the color table counts 2^bits entries for the depths 1, 2,
\* 4 and 8 (the explicit color count when nonzero and smaller) and none for
\* every other depth, each entry 3 bytes for the 12-byte header and 4 bytes
\* for every other header size.
C17_ThreeBytesOnlyLegacy ==
    (HeaderRead /\ rForge.err = Ok) =>
        ForgedOffset
        = WAdd32(W(14 + ToInt(DeclaredSize)
                   + TableEntries * (IF IsCore THEN 3 ELSE 4)), DibExtra)

\* C17 amended: the same, each entry counting 3 bytes when the DIB header
\* size is 12 or 64 and 4 bytes for every other header size.
C17_ColorTableSize ==
    (HeaderRead /\ rForge.err = Ok) =>
        ForgedOffset
        = WAdd32(W(14 + ToInt(DeclaredSize)
                   + TableEntries * (IF DeclaredSize \in {W(12), W(64)}
                                     THEN 3 ELSE 4)), DibExtra)

C17_Witness ==
    /\ HeaderRead /\ rForge.err = Ok
    /\ DeclaredSize = W(64) /\ DibBits = 8 /\ DibColors = W(2)
    /\ DibExtra = W(0)
    /\ ForgedOffset = W(14 + 64 + 2 * 3)

\* C18: for a depth other than 32 forging returns as AND mask the last
\* stride*h bytes of the payload, stride = ceil(w/32)*4 and h the height after
\* halving, and the forged size is 14 + payload length - mask length; for a
\* 32-bit payload no mask is returned and the forged size is 14 + the payload
\* length.
C18_MaskSplit ==
    (HeaderRead /\ rForge.err = Ok) =>
        IF DibBits # 32
        THEN /\ rForge.hasMask
             /\ Len(rForge.mask) = MaskStride * ToInt(PlaneHeight)
             /\ rForge.mask = [k \in 1..Len(rForge.mask) |->
                                  dibData[Len(dibData) - Len(rForge.mask) + k]]
             /\ rForge.bmpSize = 14 + Len(dibData) - Len(rForge.mask)
        ELSE /\ ~rForge.hasMask
             /\ rForge.bmpSize = 14 + Len(dibData)

C18_Witness ==
    /\ HeaderRead /\ rForge.err = Ok
    /\ DibBits = 1 /\ DibWidth = W(33) /\ PlaneHeight = W(4)
    /\ Len(rForge.mask) = 32
    /\ rForge.bmpSize = 14 + Len(dibData) - 32

\* C19: the forged file header holds 'BM', the forged file size, and the
\* pixel-data offset 14 + DIB header size + color-table size, plus the
\* extra-data length when the header is longer than 40 bytes; forging fails
\* with the corrupted-offset error whenever that offset reaches or exceeds
\* the forged file size.
C19_ForgedFileHeader ==
    (HeaderRead /\ rForge.err \in {Ok, "CorruptOffset"}) =>
        /\ rForge.err = Ok =>
              /\ Slice(rForge.buf, 0, 2) = <<66, 77>>
              /\ ForgedSize = W(rForge.bmpSize)
              /\ ForgedOffset
                 = WAdd(W(14 + ToInt(DeclaredSize)
                          + TableEntries * TableEntrySize), DibExtra)
        /\ WLe(W(14 + Len(dibData)
                 - (IF DibBits # 32 THEN MaskStride * ToInt(PlaneHeight)
                    ELSE 0)),
               WAdd(W(14 + ToInt(DeclaredSize)
                      + TableEntries * TableEntrySize), DibExtra)) =>
              rForge.err = "CorruptOffset"

\* C20 as stated: a DIB header declaring a width of 0 or, after halving, a
\* height of 0 makes forging fail with CorruptBitmapGeometry at every bit
\* depth, 32 included.
C20_ZeroDimsAnyDepth ==
    (HeaderRead /\ (DibWidth = W(0) \/ PlaneHeight = W(0))) =>
        rForge.err = "CorruptDimensions"

\* C20 amended: a DIB header declaring a width of 0 or, after halving, a
\* height of 0 makes forging fail with CorruptBitmapGeometry at every bit
\* depth other than 32; at 32 bits forging never reports that error.
C20_ZeroDimsRejected ==
    HeaderRead =>
        /\ (DibBits # 32 /\ (DibWidth = W(0) \/ PlaneHeight = W(0))) =>
              rForge.err = "CorruptDimensions"
        /\ DibBits = 32 => rForge.err # "CorruptDimensions"

C20_Witness ==
    /\ HeaderRead
    /\ DibBits = 24 /\ DibWidth = W(2) /\ DibHeight = W(0)
    /\ rForge.err = "CorruptDimensions"

\* C21: for a non-32-bit entry the alpha of every pixel (col, y) of the w x h
\* image stored is 255 when bit (7 - col mod 8) of byte
\* (h-1-y)*stride + col div 8 of the mask is 0, and 0 when it is 1, with
\* stride = ceil(w/32)*4.
C21_MaskAlpha ==
    (Composited /\ rForge.hasMask) =>
        \A y \in 0..(ImageH - 1), col \in 0..(ImageW - 1) :
            OutAlpha(col, y)
            = IF (At(rForge.mask,
                     (ImageH - 1 - y) * (((ImageW + 31) \div 32) * 4)
                     + (col \div 8))
                  \div (2 ^ (7 - (col % 8)))) % 2 = 0
              THEN 255 ELSE 0

C21_Witness ==
    /\ Composited /\ rForge.hasMask
    /\ ImageW = 33 /\ ImageH = 4
    /\ \E col \in 0..32 : OutAlpha(col, 0) = 0 /\ OutAlpha(col, 3) = 255
    /\ \E col \in 0..7 : OutAlpha(col, 1) # OutAlpha(col + 8, 1)

\* C22: for a 32-bit entry the alpha of every pixel (col, y) of the w x h
\* image stored is the byte at offset + (h-1-y)*(w*4) + col*4 + 3 of the
\* forged bitmap, offset being the pixel-data offset forging wrote; when
\* offset + w*4*h exceeds the length of the forged bitmap the iteration ends
\* with an error instead.
C22_EmbeddedAlpha ==
    /\ (Composited /\ ~rForge.hasMask) =>
           \A y \in 0..(ImageH - 1), col \in 0..(ImageW - 1) :
               OutAlpha(col, y)
               = At(ForgedBitmap,
                    ToInt(ForgedOffset) + (ImageH - 1 - y) * (ImageW * 4)
                    + (col * 4) + 3)
    /\ (pc = "done" /\ ForgeCalled /\ rForge.err = Ok /\ ~rForge.hasMask
        /\ DecoderDims.err = Ok
        /\ AlphaExceeds(DecoderDims.w, DecoderDims.h, ForgedOffset,
                        Len(ForgedBitmap))) =>
           rImage.err # Ok

C22_Witness ==
    /\ Composited /\ ~rForge.hasMask
    /\ ImageW = 2 /\ ImageH = 2
    /\ OutAlpha(0, 0) = At(ForgedBitmap, ToInt(ForgedOffset) + 8 + 3)
    /\ OutAlpha(1, 1) = At(ForgedBitmap, ToInt(ForgedOffset) + 4 + 3)
    /\ OutAlpha(0, 0) # OutAlpha(0, 1)
    /\ OutAlpha(0, 0) # At(ForgedBitmap, ToInt(ForgedOffset) + 8)

\* C23: whenever forging succeeds the pixel-data offset written at bytes
\* 10..13 of the forged buffer is at least 14 + the DIB header size and below
\* the forged file size, whatever extra-data length a header longer than 40
\* bytes carries.
C23_OffsetInRange ==
    (HeaderRead /\ rForge.err = Ok) =>
        /\ WLe(W(14 + ToInt(DeclaredSize)), ForgedOffset)
        /\ WLt(ForgedOffset, ForgedSize)

\* C24: whenever forging succeeds for a non-32-bit payload the mask returned
\* is not empty, its length is ceil(w/32)*4*h for the width w and the height h
\* the forged header holds, and forged size - 14 + mask length is the payload
\* length; and when the BMP decoder reports that width and height the
\* iteration never ends with the corrupted-mask error.
C24_MaskFitsForgedHeader ==
    (HeaderRead /\ rForge.err = Ok /\ DibBits # 32) =>
        /\ rForge.hasMask /\ Len(rForge.mask) > 0
        /\ IsSmall(ForgedWidth) /\ IsSmall(ForgedHeight)
        /\ Len(rForge.mask)
           = ((ToInt(ForgedWidth) + 31) \div 32) * 4 * ToInt(ForgedHeight)
        /\ ToInt(ForgedSize) - 14 + Len(rForge.mask) = Len(dibData)
        /\ (pc = "done" /\ DecoderDims.err = Ok /\ DecoderDims.w = ForgedWidth
            /\ DecoderDims.h = ForgedHeight) =>
               rImage.err # "CorruptMask"

C24_Witness ==
    /\ Composited /\ DibBits = 24
    /\ DecoderDims.w = ForgedWidth /\ DecoderDims.h = ForgedHeight
    /\ ForgedWidth = W(32) /\ ForgedHeight = W(4)
    /\ Len(rForge.mask) = 16
    /\ bmpDecode(ForgedBitmap).err # Ok

\* C25: two files of the same length that agree on the header, the first
\* directory entry and the payload range of the first entry get the same
\* result from DecodeConfig, the same width and height or the same error,
\* whatever Decode makes of each of them.
C25_ConfigFirstEntryOnly ==
    (rConfig.called /\ rConfigOther # NotCalled /\ SameForConfig(file, other)) =>
        /\ rConfigOther.err = rConfig.err
        /\ rConfigOther.w = rConfig.w
        /\ rConfigOther.h = rConfig.h

C25_Witness ==
    /\ rConfig.called /\ rConfigOther # NotCalled
    /\ SameForConfig(file, other)
    /\ rConfig.err = Ok /\ rConfigOther.err = Ok /\ rConfig.w = W(1)
    /\ rDecode.called /\ rDecode.err = Ok
    /\ rDecodeOther # NotCalled /\ rDecodeOther.err # Ok
    /\ \E p \in (headSize + direntrySize)..(headSize + 2 * direntrySize - 1) :
          At(other, p) # At(file, p)

\* C26: while decode is in its loop the bytes of the file buffer are those
\* read, whatever number of entries has been processed; every write of an
\* iteration goes to the per-entry copy, into its first 14 bytes or the
\* height field of its DIB header, and the copy is otherwise the payload;
\* and each iteration ends with what the entry gives when decoded alone,
\* also when several entries name the same or overlapping payload ranges.
C26_FileBufferUntouched ==
    loopOn =>
        /\ fileBuf = file
        /\ \A i \in 1..Len(loopOut) :
              /\ loopOut[i].err = decodedAlone(i).err
              /\ loopOut[i].img = decodedAlone(i).img
              /\ \A w \in loopOut[i].writes :
                    /\ w.buf = "buf"
                    /\ \/ w.at + Len(w.bytes) <= 14
                       \/ w.at = 14 + 8 /\ Len(w.bytes) = 4
                       \/ w.at = 14 + 6 /\ Len(w.bytes) = 2
              /\ ForgedOk(i) =>
                    forgeBMPHead(entryBytes(file, loopEntries[i]).data,
                                 loopEntries[i]).buf
                    = written(Zeros(14) \o entryBytes(file, loopEntries[i]).data,
                              "buf", 0, loopOut[i].writes)

C26_Witness ==
    /\ loopOn /\ Len(loopOut) = 3
    /\ loopEntries[1].Offset = loopEntries[2].Offset
    /\ loopEntries[1].Size = loopEntries[3].Size
    /\ \A i \in 1..3 : loopOut[i].err = Ok /\ loopOut[i].img = loopOut[1].img
    /\ \E w \in loopOut[1].writes : w.at = 14 + 8
    /\ loopOut[1].img.kind = "masked"
    /\ fileBuf = file

=============================================================================
